---- MODULE Spec2Model ----
(***************************************************************************)
(* Resource ingestion pipeline of richard-api.                             *)
(*                                                                         *)
(* The record store holds one row per learning resource.  create_resource  *)
(* inserts a row in status "processing" and schedules ingest_resource as a *)
(* background task; the task opens its own session, loads the row and      *)
(* walks it through the extraction, summary and title stages, persisting   *)
(* a status at each stage.  delete_resource may remove the row at any      *)
(* moment.  Text contents are abstracted to "" (empty), "text" (real       *)
(* content) and "placeholder" (a diagnostic message).                      *)
(*                                                                         *)
(* Eight specifications: Spec is the ingestion pipeline; ConcurrentSpec    *)
(* runs the ingestions of two resources side by side; FunctionSpec calls   *)
(* the summarizer and the title generators on their own, repeatedly;       *)
(* ArtifactSpec runs the flash card and quiz generators, whose texts are   *)
(* sequences of characters, against delete_resource and a concurrent       *)
(* invocation; ExtractorSpec follows one invocation of the audio, pdf or   *)
(* image extractor statement by statement; HelperSpec calls the caption    *)
(* formatter, the video URL parser, the title clean-up and the page loop   *)
(* of the pdf extractor on character sequences; SessionSpec runs the       *)
(* ingestion tasks and a generator together, each with its session;        *)
(* FolderSpec creates and deletes folders and files resources in them.     *)
(***************************************************************************)
EXTENDS Naturals, Sequences, FiniteSets, TLC

\* Number of resources created in a run of Spec (with ids 1..MaxResources).
MaxResources == 1

\* The two resources whose ingestions run side by side in ConcurrentSpec.
ConcurrentIds == {1, 2}

\* Ids of the record store.
ResourceIds == (1..MaxResources) \cup ConcurrentIds

\* LearningResourceFileType
ResourceTypes == {"pdf", "youtube_link", "audio", "text", "image"}

\* ResourceStatus
Statuses == {"processing", "transcribing", "summarizing", "completed", "failed"}

\* Position of a status in the order processing < transcribing < summarizing
\* < completed ("failed" is outside the order).
Rank(s) ==
    CASE s = "processing" -> 0
      [] s = "transcribing" -> 1
      [] s = "summarizing" -> 2
      [] s = "completed" -> 3
      [] OTHER -> 4

NoRow == [absent |-> TRUE]

\* str is falsy or str.strip() == ""
Blank(s) == s = ""

VARIABLES
    store,         \* record store: id -> committed row, or NoRow
    sess,          \* the ingestion task's session copy of its resource
    pc,            \* position of the ingestion task of each resource id
    exc,           \* exception caught by ingest_resource's except clause
    raised,        \* exception propagated by ingest_resource to its caller
    log,           \* history of each task: persists, calls, returns
    nextId,        \* next auto-increment resource id
    pilInstalled,  \* whether the Pillow package can be imported
    glyph,         \* the emoji attribute of the session copy (no column)
    gen,           \* the artifact generator task
    flashCards,    \* flash_cards table
    quizQuestions, \* multiple_choice_questions table
    ext,           \* one invocation of a file extractor, step by step
    helper,        \* one call of a transcript helper function
    db,            \* the session each task opened: none, open or closed
    tree           \* folders, the resources filed in them and their artifacts

\* State of the artifact generators.
artVars == <<gen, flashCards, quizQuestions>>

\* State of the extractor and helper calls followed on their own, the
\* sessions and the folder tree.
auxVars == <<ext, helper, db, tree>>

vars == <<store, sess, pc, exc, raised, log, nextId, pilInstalled, glyph,
          gen, flashCards, quizQuestions, ext, helper, db, tree>>

----------------------------------------------------------------------------
\* Dispatch tables

\* The extractor table without an entry for text.
TranscribeFunctionNoText(type) ==
    CASE type = "youtube_link" -> "transcribe_youtube_link"
      [] type = "pdf" -> "transcribe_pdf"
      [] type = "audio" -> "transcribe_audio"
      [] type = "image" -> "transcribe_images"
      [] OTHER -> "none"

\* RESOURCE_TYPE_TO_TRANSCRIBE_FUNCTION: "none" when the type has no entry.
TranscribeFunction(type) ==
    CASE type = "youtube_link" -> "transcribe_youtube_link"
      [] type = "pdf" -> "transcribe_pdf"
      [] type = "audio" -> "transcribe_audio"
      [] type = "text" -> "transcribe_text"
      [] type = "image" -> "transcribe_images"
      [] OTHER -> "none"

\* RESOURCE_TYPE_TO_GEN_TITLE_FUNCTION: "none" when the type has no entry.
GenTitleFunction(type) ==
    CASE type = "youtube_link" -> "generate_resource_title"
      [] type = "pdf" -> "generate_resource_title"
      [] type = "audio" -> "generate_resource_title"
      [] type = "text" -> "generate_resource_title"
      [] OTHER -> "none"

----------------------------------------------------------------------------
\* Log events

Persisted(s) == [ev |-> "persist", arg |-> s]
PersistError(s) == [ev |-> "persist_error", arg |-> s]
Called(f) == [ev |-> "call", arg |-> f]
\* res: the transcript an extractor wrote ("pass": nothing); for the
\* summarizer and the title generators the branch that returned
\* ("requested": after a request to the backend).
Returned(f, res) == [ev |-> "return", arg |-> f, res |-> res]
Raised(f) == [ev |-> "raise", arg |-> f]
\* A request of function f to its backend (generation service, video
\* metadata service).
Backend(f) == [ev |-> "backend", arg |-> f]

Logged(id, evs) == log' = [log EXCEPT ![id] = @ \o evs]

\* The artifact generator task before it is scheduled.
NoContent == [form |-> "none", items |-> <<>>]
IdleGen == [kind |-> "none", rid |-> 0, pc |-> "idle",
            content |-> NoContent, outcome |-> "none"]

\* No extractor invocation under way.
IdleExt == [kind |-> "none", pc |-> "idle"]

\* No helper call under way.
IdleHelper == [name |-> "none", pc |-> "idle"]

\* Users that have signed up.
Users == {1, 2}

\* Bounds of the folder tree: folder ids and ids of resources filed in it.
MaxFolders == 4
MaxFiled == 2

\* Tables of the rows that reference a resource.
ArtifactTables ==
    {"flash_cards", "multiple_choice_questions", "learning_resource_images"}

\* The store after the sign-up of the users: each user has a root folder,
\* referenced by the user's root_folder_id; 0 stands for NULL.
SignedUp ==
    [folders |-> [f \in 1..MaxFolders |->
                    IF f \in Users
                    THEN [user_id |-> f, parent_folder_id |-> 0]
                    ELSE NoRow],
     resources |-> [r \in 1..MaxFiled |-> NoRow],
     artifacts |-> {},
     root_folder_id |-> [u \in Users |-> u],
     next_folder |-> 3,
     next_resource |-> 1]

\* No task has opened a session.
NoSessions == [ingest |-> [id \in ResourceIds |-> "none"], gen |-> "none"]

\* A task that closes its session at the end of the try block only.
IngestSessionNoFinally(id) ==
    db' = [db EXCEPT !.ingest[id] =
             IF pc'[id] = "done" THEN "closed" ELSE "open"]

\* db = next(get_db()) before the try, db.close() in the finally clause:
\* the session is open while the task runs and closed when it leaves.
IngestSession(id) ==
    db' = [db EXCEPT !.ingest[id] =
             IF pc'[id] \in {"done", "raised"} THEN "closed" ELSE "open"]

\* The same in the artifact generators.
GenSession ==
    db' = [db EXCEPT !.gen =
             IF gen'.pc \in {"done", "raised"} THEN "closed" ELSE "open"]

----------------------------------------------------------------------------
Init ==
    /\ store = [id \in ResourceIds |-> NoRow]
    /\ sess = [id \in ResourceIds |-> NoRow]
    /\ pc = [id \in ResourceIds |-> "none"]
    /\ exc = [id \in ResourceIds |-> "none"]
    /\ raised = [id \in ResourceIds |-> "none"]
    /\ log = [id \in ResourceIds |-> <<>>]
    /\ nextId = 1
    /\ pilInstalled \in BOOLEAN
    /\ glyph = [id \in ResourceIds |-> "unset"]
    /\ gen = IdleGen
    /\ flashCards = <<>>
    /\ quizQuestions = <<>>
    /\ ext = IdleExt
    /\ helper = IdleHelper
    /\ db = NoSessions
    /\ tree = SignedUp

\* Transcript a client supplies at creation: inline content for a text
\* resource, "" otherwise (transcript = transcript or "").
InitialTranscripts(type) == IF type = "text" THEN {"", "text"} ELSE {""}

\* create_resource: insert the row (status defaults to processing) and
\* schedule ingest_resource(resource.id).
CreateResource(type, transcript) ==
    /\ nextId <= MaxResources
    /\ store' = [store EXCEPT ![nextId] =
                    [type |-> type, status |-> "processing",
                     transcript |-> transcript, summary |-> "", title |-> ""]]
    /\ pc' = [pc EXCEPT ![nextId] = "load"]
    /\ nextId' = nextId + 1
    /\ UNCHANGED <<sess, exc, raised, log, pilInstalled, glyph, artVars, auxVars>>

\* The rows of table t that do not belong to resource id.
NotOf(t, id) == SelectSeq(t, LAMBDA r : r.resource_id # id)

\* delete_resource: delete the resource's flash cards and quiz questions,
\* then the row, in one transaction.
DeleteResource(id) ==
    /\ store[id] # NoRow
    /\ store' = [store EXCEPT ![id] = NoRow]
    /\ flashCards' = NotOf(flashCards, id)
    /\ quizQuestions' = NotOf(quizQuestions, id)
    /\ UNCHANGED <<sess, pc, exc, raised, log, nextId, pilInstalled, glyph, gen,
                   auxVars>>

----------------------------------------------------------------------------
\* Session primitives

\* A commit through one session shared by all tasks: it also writes what
\* the other tasks have pending.
CommittedSharedSession(id, row) ==
    /\ store' = [o \in ResourceIds |->
                    IF o = id THEN row
                    ELSE IF sess[o] # NoRow /\ store[o] # NoRow THEN sess[o]
                    ELSE store[o]]
    /\ sess' = [sess EXCEPT ![id] = row]

\* db.commit() (and the refresh after it) succeed: the row takes the
\* session's values.
Committed(id, row) ==
    /\ store' = [store EXCEPT ![id] = row]
    /\ sess' = [sess EXCEPT ![id] = row]

\* db.commit() raises: the transaction is rolled back and the session's
\* pending changes are discarded.
RolledBack(id) ==
    /\ store' = store
    /\ sess' = [sess EXCEPT ![id] = IF store[id] = NoRow THEN @ ELSE store[id]]

EnterHandler(id, e) ==
    /\ exc' = [exc EXCEPT ![id] = e]
    /\ pc' = [pc EXCEPT ![id] = "handler"]

\* save_resource_status that writes the status column alone, leaving what
\* else the session has pending.
SaveResourceStatusAlone(id, status, next) ==
    LET row == [store[id] EXCEPT !.status = status] IN
    \/ /\ store[id] # NoRow
       /\ Committed(id, row)
       /\ pc' = [pc EXCEPT ![id] = next]
       /\ Logged(id, <<Persisted(status)>>)
       /\ UNCHANGED exc
    \/ /\ RolledBack(id)
       /\ EnterHandler(id, "PersistenceError")
       /\ Logged(id, <<PersistError("commit")>>)

\* save_resource_status whose commit inserts the row when it is gone.
SaveResourceStatusUpserts(id, status, next) ==
    LET row == [sess[id] EXCEPT !.status = status] IN
    \/ /\ Committed(id, row)
       /\ pc' = [pc EXCEPT ![id] = next]
       /\ Logged(id, <<Persisted(status)>>)
       /\ UNCHANGED exc
    \/ /\ RolledBack(id)
       /\ EnterHandler(id, "PersistenceError")
       /\ Logged(id, <<PersistError("commit")>>)

\* save_resource_status(resource, status, db), then control moves to `next`.
\* commit raises (always so when the row is gone: the UPDATE matches no
\* row), or commit succeeds and refresh raises, or both succeed.
SaveResourceStatus(id, status, next) ==
    LET row == [sess[id] EXCEPT !.status = status] IN
    \/ /\ store[id] # NoRow
       /\ Committed(id, row)
       /\ pc' = [pc EXCEPT ![id] = next]
       /\ Logged(id, <<Persisted(status)>>)
       /\ UNCHANGED exc
    \/ /\ store[id] # NoRow
       /\ Committed(id, row)
       /\ EnterHandler(id, "PersistenceError")
       /\ Logged(id, <<Persisted(status), PersistError("refresh")>>)
    \/ /\ RolledBack(id)
       /\ EnterHandler(id, "PersistenceError")
       /\ Logged(id, <<PersistError("commit")>>)

----------------------------------------------------------------------------
\* ingest_resource

\* Load that goes to the extractor without persisting transcribing first.
LoadSkipsTranscribing(id) ==
    /\ pc[id] = "load"
    /\ IF store[id] = NoRow
       THEN /\ EnterHandler(id, "NotFound")
            /\ UNCHANGED sess
       ELSE /\ sess' = [sess EXCEPT ![id] = store[id]]
            /\ pc' = [pc EXCEPT ![id] =
                        IF TranscribeFunction(store[id].type) # "none"
                        THEN "extract" ELSE "set_summarizing"]
            /\ UNCHANGED exc
    /\ IngestSession(id)
    /\ UNCHANGED <<store, raised, log, nextId, pilInstalled, glyph, artVars, ext, helper, tree>>

\* Lines 35-41: load the resource; raise when it is absent; branch on the
\* extractor table.
Load(id) ==
    /\ pc[id] = "load"
    /\ IF store[id] = NoRow
       THEN /\ EnterHandler(id, "NotFound")
            /\ UNCHANGED sess
       ELSE /\ sess' = [sess EXCEPT ![id] = store[id]]
            /\ pc' = [pc EXCEPT ![id] =
                        IF TranscribeFunction(store[id].type) # "none"
                        THEN "set_transcribing" ELSE "set_summarizing"]
            /\ UNCHANGED exc
    /\ IngestSession(id)
    /\ UNCHANGED <<store, raised, log, nextId, pilInstalled, glyph, artVars, ext, helper, tree>>

\* Line 42
SetTranscribing(id) ==
    /\ pc[id] = "set_transcribing"
    /\ SaveResourceStatus(id, "transcribing", "extract")
    /\ UNCHANGED <<raised, nextId, pilInstalled, glyph, artVars, auxVars>>

\* What an extractor can do: a transcript value it writes, "pass" (writes
\* nothing) or "raise" (an exception leaves the function).
\*   transcribe_youtube_link: formatted captions (possibly empty) or the
\*     "Transcript not available" message; the whole body is in one try.
\*   transcribe_audio, transcribe_pdf: text or a diagnostic message.
\*   transcribe_text: pass.
\*   transcribe_images: `from PIL import Image` precedes the try block, so
\*     a missing Pillow raises ImportError out of the function; otherwise
\*     text or a diagnostic message.
ExtractorOutcomes(fn) ==
    CASE fn = "transcribe_youtube_link" -> {"text", "", "placeholder"}
      [] fn = "transcribe_audio" -> {"text", "placeholder"}
      [] fn = "transcribe_pdf" -> {"text", "placeholder"}
      [] fn = "transcribe_text" -> {"pass"}
      [] fn = "transcribe_images" ->
            IF pilInstalled THEN {"text", "placeholder"} ELSE {"raise"}
      [] OTHER -> {}

\* Line 43
Extract(id) ==
    /\ pc[id] = "extract"
    /\ LET fn == TranscribeFunction(sess[id].type) IN
       \E out \in ExtractorOutcomes(fn) :
          IF out = "raise"
          THEN /\ EnterHandler(id, "ImportError")
               /\ Logged(id, <<Called(fn), Raised(fn)>>)
               /\ UNCHANGED sess
          ELSE /\ sess' = [sess EXCEPT ![id].transcript =
                              IF out = "pass" THEN @ ELSE out]
               /\ pc' = [pc EXCEPT ![id] = "set_summarizing"]
               /\ Logged(id, <<Called(fn), Returned(fn, out)>>)
               /\ UNCHANGED exc
    /\ UNCHANGED <<store, raised, nextId, pilInstalled, glyph, artVars, auxVars>>

\* SetSummarizing that writes the initial status back.
SetSummarizingRegresses(id) ==
    /\ pc[id] = "set_summarizing"
    /\ SaveResourceStatus(id, "processing", "summarize")
    /\ UNCHANGED <<raised, nextId, pilInstalled, glyph, artVars, auxVars>>

\* Line 45
SetSummarizing(id) ==
    /\ pc[id] = "set_summarizing"
    /\ SaveResourceStatus(id, "summarizing", "summarize")
    /\ UNCHANGED <<raised, nextId, pilInstalled, glyph, artVars, auxVars>>

\* Responses of the generation backend to summarize_text.
SummaryResponses == {"error", "bad_json", "empty_summary", "ok", "ok_no_emoji"}

\* What summarize_text got from the backend, as recorded in the history:
\* a summary, or none (the call failed, the response could not be parsed,
\* or its summary was empty).
SummaryResult(resp) ==
    IF resp \in {"ok", "ok_no_emoji"} THEN "summary" ELSE "no_summary"

\* summarize_text that has no check of an existing summary.
SummarizeTextNoSummaryCheck(id) ==
    LET f == "summarize_text" IN
    IF Blank(sess[id].transcript)
    THEN /\ Logged(id, <<Called(f), Returned(f, "no_transcript")>>)
         /\ UNCHANGED <<store, sess, glyph>>
    ELSE \E resp \in SummaryResponses :
         /\ Logged(id, <<Called(f), Backend(f), Returned(f, SummaryResult(resp))>>)
         /\ IF resp \in {"ok", "ok_no_emoji"}
            THEN /\ glyph' = [glyph EXCEPT ![id] = "emoji"]
                 /\ \/ /\ store[id] # NoRow
                       /\ Committed(id, [sess[id] EXCEPT !.summary = "summary"])
                    \/ RolledBack(id)
            ELSE UNCHANGED <<store, sess, glyph>>

\* summarize_text that assigns summary_notes before it looks at the
\* response.
SummarizeTextAssignsEarly(id) ==
    LET f == "summarize_text" IN
    IF Blank(sess[id].transcript)
    THEN /\ Logged(id, <<Called(f), Returned(f, "no_transcript")>>)
         /\ UNCHANGED <<store, sess, glyph>>
    ELSE IF ~Blank(sess[id].summary)
    THEN /\ Logged(id, <<Called(f), Returned(f, "has_summary")>>)
         /\ UNCHANGED <<store, sess, glyph>>
    ELSE \E resp \in SummaryResponses :
         /\ Logged(id, <<Called(f), Backend(f), Returned(f, SummaryResult(resp))>>)
         /\ sess' = [sess EXCEPT ![id].summary = "summary"]
         /\ UNCHANGED <<store, glyph>>

\* summarize_text(resource, db), lines 109-195; every exception is
\* swallowed.  The history gets the call, the backend request if one is
\* made, and the return with the branch taken.
SummarizeText(id) ==
    LET f == "summarize_text" IN
    IF Blank(sess[id].transcript)
    THEN /\ Logged(id, <<Called(f), Returned(f, "no_transcript")>>)
         /\ UNCHANGED <<store, sess, glyph>>
    ELSE IF ~Blank(sess[id].summary)
    THEN /\ Logged(id, <<Called(f), Returned(f, "has_summary")>>)
         /\ UNCHANGED <<store, sess, glyph>>
    ELSE \E resp \in SummaryResponses :
         /\ Logged(id, <<Called(f), Backend(f), Returned(f, SummaryResult(resp))>>)
         /\ CASE resp = "ok" ->
                   \* summary_notes and emoji are assigned, then commit
                   /\ glyph' = [glyph EXCEPT ![id] = "emoji"]
                   /\ \/ /\ store[id] # NoRow
                         /\ Committed(id, [sess[id] EXCEPT !.summary = "summary"])
                      \/ RolledBack(id)
              [] resp = "ok_no_emoji" /\ glyph[id] = "unset" ->
                   \* summary_notes is assigned, then reading
                   \* resource.emoji raises before the commit
                   /\ sess' = [sess EXCEPT ![id].summary = "summary"]
                   /\ UNCHANGED <<store, glyph>>
              [] resp = "ok_no_emoji" /\ glyph[id] # "unset" ->
                   \* the object already has an emoji attribute: it is kept
                   /\ \/ /\ store[id] # NoRow
                         /\ Committed(id, [sess[id] EXCEPT !.summary = "summary"])
                      \/ RolledBack(id)
                   /\ UNCHANGED glyph
              [] OTHER -> UNCHANGED <<store, sess, glyph>>

\* Line 48 of ingest_resource: summarize_text(resource, db).
Summarize(id) ==
    /\ pc[id] = "summarize"
    /\ pc' = [pc EXCEPT ![id] = "title"]
    /\ SummarizeText(id)
    /\ UNCHANGED <<exc, raised, nextId, pilInstalled, artVars, auxVars>>

\* Responses of the generation backend to generate_resource_title.
TitleResponses == {"error", "empty", "ok"}

\* generate_resource_title that has no check of an existing title.
GenerateResourceTitleNoTitleCheck(id) ==
    LET f == "generate_resource_title" IN
    IF Blank(sess[id].summary)
    THEN /\ Logged(id, <<Called(f), Returned(f, "no_summary")>>)
         /\ UNCHANGED <<store, sess>>
    ELSE \E resp \in TitleResponses :
         /\ Logged(id, <<Called(f), Backend(f), Returned(f, "requested")>>)
         /\ IF resp = "ok"
            THEN \/ /\ store[id] # NoRow
                    /\ Committed(id, [sess[id] EXCEPT !.title = "title2"])
                 \/ RolledBack(id)
            ELSE UNCHANGED <<store, sess>>

\* generate_resource_title(resource, db), lines 26-107; every exception is
\* swallowed.
GenerateResourceTitle(id) ==
    LET f == "generate_resource_title" IN
    IF Blank(sess[id].summary)
    THEN /\ Logged(id, <<Called(f), Returned(f, "no_summary")>>)
         /\ UNCHANGED <<store, sess>>
    ELSE IF ~Blank(sess[id].title)
    THEN /\ Logged(id, <<Called(f), Returned(f, "has_title")>>)
         /\ UNCHANGED <<store, sess>>
    ELSE \E resp \in TitleResponses :
         /\ Logged(id, <<Called(f), Backend(f), Returned(f, "requested")>>)
         /\ IF resp = "ok"
            THEN \/ /\ store[id] # NoRow
                    /\ Committed(id, [sess[id] EXCEPT !.title = "title"])
                 \/ RolledBack(id)
            ELSE UNCHANGED <<store, sess>>

\* What the video metadata lookup of gen_youtube_title gives: an exception,
\* no title, or a title.
YoutubeInfoResponses == {"error", "empty", "ok"}

\* gen_youtube_title(resource, db), lines 198-248; every exception is
\* swallowed.  file_url is not part of the row kept here: whether it is
\* blank is chosen at the call.
GenYoutubeTitle(id) ==
    LET f == "gen_youtube_title" IN
    \/ /\ Logged(id, <<Called(f), Returned(f, "no_url")>>)
       /\ UNCHANGED <<store, sess>>
    \/ IF ~Blank(sess[id].title)
       THEN /\ Logged(id, <<Called(f), Returned(f, "has_title")>>)
            /\ UNCHANGED <<store, sess>>
       ELSE \E resp \in YoutubeInfoResponses :
            /\ Logged(id, <<Called(f), Backend(f), Returned(f, "requested")>>)
            /\ IF resp = "ok"
               THEN \/ /\ store[id] # NoRow
                       /\ Committed(id, [sess[id] EXCEPT !.title = "title"])
                    \/ RolledBack(id)
               ELSE UNCHANGED <<store, sess>>

\* Lines 50-51
Title(id) ==
    /\ pc[id] = "title"
    /\ pc' = [pc EXCEPT ![id] = "set_completed"]
    /\ IF GenTitleFunction(sess[id].type) = "generate_resource_title"
       THEN GenerateResourceTitle(id)
       ELSE UNCHANGED <<store, sess, log>>
    /\ UNCHANGED <<exc, raised, nextId, pilInstalled, glyph, artVars, auxVars>>

\* Lines 53-56
SetCompleted(id) ==
    /\ pc[id] = "set_completed"
    /\ SaveResourceStatus(id, "completed", "done")
    /\ IngestSession(id)
    /\ UNCHANGED <<raised, nextId, pilInstalled, glyph, artVars, ext, helper, tree>>

\* Handler that re-raises without trying to persist failed.
HandlerNoPersist(id) ==
    /\ pc[id] = "handler"
    /\ pc' = [pc EXCEPT ![id] = "raised"]
    /\ raised' = [raised EXCEPT ![id] = exc[id]]
    /\ IngestSession(id)
    /\ UNCHANGED <<store, sess, log, exc, nextId, pilInstalled, glyph, artVars, ext, helper, tree>>

\* Handler that raises the error of its own persist instead of the caught
\* exception.
HandlerRaisesCommitError(id) ==
    /\ pc[id] = "handler"
    /\ pc' = [pc EXCEPT ![id] = "raised"]
    /\ IF store[id] = NoRow
       THEN /\ raised' = [raised EXCEPT ![id] = exc[id]]
            /\ UNCHANGED <<store, sess, log>>
       ELSE \/ /\ Committed(id, [store[id] EXCEPT !.status = "failed"])
               /\ Logged(id, <<Persisted("failed")>>)
               /\ raised' = [raised EXCEPT ![id] = exc[id]]
            \/ /\ RolledBack(id)
               /\ Logged(id, <<PersistError("failed")>>)
               /\ raised' = [raised EXCEPT ![id] = "FailedPersistError"]
    /\ IngestSession(id)
    /\ UNCHANGED <<exc, nextId, pilInstalled, glyph, artVars, ext, helper, tree>>

\* Handler that writes a failed row even when the resource does not exist.
HandlerUpserts(id) ==
    /\ pc[id] = "handler"
    /\ pc' = [pc EXCEPT ![id] = "raised"]
    /\ raised' = [raised EXCEPT ![id] = exc[id]]
    /\ IF store[id] = NoRow
       THEN /\ store' = [store EXCEPT ![id] =
                           [type |-> "text", status |-> "failed",
                            transcript |-> "", summary |-> "", title |-> ""]]
            /\ UNCHANGED <<sess, log>>
       ELSE \/ /\ Committed(id, [store[id] EXCEPT !.status = "failed"])
               /\ Logged(id, <<Persisted("failed")>>)
            \/ /\ RolledBack(id)
               /\ Logged(id, <<PersistError("failed")>>)
    /\ IngestSession(id)
    /\ UNCHANGED <<exc, nextId, pilInstalled, glyph, artVars, ext, helper, tree>>

\* Lines 58-68: reload; if the row exists set FAILED and commit; an error
\* of this attempt is logged and swallowed; re-raise the caught exception.
Handler(id) ==
    /\ pc[id] = "handler"
    /\ pc' = [pc EXCEPT ![id] = "raised"]
    /\ raised' = [raised EXCEPT ![id] = exc[id]]
    /\ IF store[id] = NoRow
       THEN UNCHANGED <<store, sess, log>>
       ELSE \/ /\ Committed(id, [store[id] EXCEPT !.status = "failed"])
               /\ Logged(id, <<Persisted("failed")>>)
            \/ /\ RolledBack(id)
               /\ Logged(id, <<PersistError("failed")>>)
    /\ IngestSession(id)
    /\ UNCHANGED <<exc, nextId, pilInstalled, glyph, artVars, ext, helper, tree>>

\* One step of the ingestion task of resource id.
Ingest(id) ==
    \/ Load(id)
    \/ SetTranscribing(id)
    \/ Extract(id)
    \/ SetSummarizing(id)
    \/ Summarize(id)
    \/ Title(id)
    \/ SetCompleted(id)
    \/ Handler(id)

Next ==
    \/ \E type \in ResourceTypes : \E tr \in InitialTranscripts(type) :
          CreateResource(type, tr)
    \/ \E id \in ResourceIds : DeleteResource(id)
    \/ \E id \in ResourceIds : Load(id)
    \/ \E id \in ResourceIds : SetTranscribing(id)
    \/ \E id \in ResourceIds : Extract(id)
    \/ \E id \in ResourceIds : SetSummarizing(id)
    \/ \E id \in ResourceIds : Summarize(id)
    \/ \E id \in ResourceIds : Title(id)
    \/ \E id \in ResourceIds : SetCompleted(id)
    \/ \E id \in ResourceIds : Handler(id)

Spec == Init /\ [][Next]_vars

----------------------------------------------------------------------------
\* Two resources created one after the other, their ingestions scheduled
\* and running side by side (each task has its own session, line 31).

ConcurrentInit ==
    /\ \E rows \in [ConcurrentIds ->
                      {[type |-> t, status |-> "processing", transcript |-> tr,
                        summary |-> "", title |-> ""] :
                          t \in ResourceTypes, tr \in {"", "text"}}] :
          /\ \A id \in ConcurrentIds :
                rows[id].transcript \in InitialTranscripts(rows[id].type)
          /\ store = [id \in ResourceIds |->
                        IF id \in ConcurrentIds THEN rows[id] ELSE NoRow]
    /\ sess = [id \in ResourceIds |-> NoRow]
    /\ pc = [id \in ResourceIds |->
                IF id \in ConcurrentIds THEN "load" ELSE "none"]
    /\ exc = [id \in ResourceIds |-> "none"]
    /\ raised = [id \in ResourceIds |-> "none"]
    /\ log = [id \in ResourceIds |-> <<>>]
    /\ nextId = 3
    /\ pilInstalled = TRUE
    /\ glyph = [id \in ResourceIds |-> "unset"]
    /\ gen = IdleGen
    /\ flashCards = <<>>
    /\ quizQuestions = <<>>
    /\ ext = IdleExt
    /\ helper = IdleHelper
    /\ db = NoSessions
    /\ tree = SignedUp

ConcurrentNext ==
    \/ \E id \in ResourceIds : Load(id)
    \/ \E id \in ResourceIds : SetTranscribing(id)
    \/ \E id \in ResourceIds : Extract(id)
    \/ \E id \in ResourceIds : SetSummarizing(id)
    \/ \E id \in ResourceIds : Summarize(id)
    \/ \E id \in ResourceIds : Title(id)
    \/ \E id \in ResourceIds : SetCompleted(id)
    \/ \E id \in ResourceIds : Handler(id)

ConcurrentSpec == ConcurrentInit /\ [][ConcurrentNext]_vars

----------------------------------------------------------------------------
\* The summarizer and the title generators called on their own, any number
\* of times up to MaxCalls, on a loaded resource in any state of its text
\* fields.

\* Number of calls made in a run of FunctionSpec.
MaxCalls == 2

\* Calls in the history of resource id.
Calls(id) == Cardinality({i \in 1..Len(log[id]) : log[id][i].ev = "call"})

\* Rows a caller can hold: any type, any of the text values in transcript,
\* summary_notes and title.
FunctionRows ==
    [type : ResourceTypes, status : {"summarizing"},
     transcript : {"", "text", "placeholder"},
     summary : {"", "summary"}, title : {"", "title"}]

FunctionInit ==
    /\ \E row \in FunctionRows :
          /\ store = [id \in ResourceIds |-> IF id = 1 THEN row ELSE NoRow]
          /\ sess = [id \in ResourceIds |-> IF id = 1 THEN row ELSE NoRow]
    /\ pc = [id \in ResourceIds |-> IF id = 1 THEN "fn" ELSE "none"]
    /\ exc = [id \in ResourceIds |-> "none"]
    /\ raised = [id \in ResourceIds |-> "none"]
    /\ log = [id \in ResourceIds |-> <<>>]
    /\ nextId = 2
    /\ pilInstalled = TRUE
    /\ glyph = [id \in ResourceIds |-> "unset"]
    /\ gen = IdleGen
    /\ flashCards = <<>>
    /\ quizQuestions = <<>>
    /\ ext = IdleExt
    /\ helper = IdleHelper
    /\ db = NoSessions
    /\ tree = SignedUp

CallSummarizeText(id) ==
    /\ pc[id] = "fn"
    /\ Calls(id) < MaxCalls
    /\ SummarizeText(id)
    /\ UNCHANGED <<pc, exc, raised, nextId, pilInstalled, artVars, auxVars>>

CallGenerateResourceTitle(id) ==
    /\ pc[id] = "fn"
    /\ Calls(id) < MaxCalls
    /\ GenerateResourceTitle(id)
    /\ UNCHANGED <<pc, exc, raised, nextId, pilInstalled, glyph, artVars, auxVars>>

CallGenYoutubeTitle(id) ==
    /\ pc[id] = "fn"
    /\ Calls(id) < MaxCalls
    /\ GenYoutubeTitle(id)
    /\ UNCHANGED <<pc, exc, raised, nextId, pilInstalled, glyph, artVars, auxVars>>

FunctionNext ==
    \/ \E id \in ResourceIds : CallSummarizeText(id)
    \/ \E id \in ResourceIds : CallGenerateResourceTitle(id)
    \/ \E id \in ResourceIds : CallGenYoutubeTitle(id)

FunctionSpec == FunctionInit /\ [][FunctionNext]_vars

----------------------------------------------------------------------------
\* Texts of flash cards and quiz questions: sequences of characters.

NL == "\n"
SP == " "
Whitespace == {SP, NL}

RECURSIVE LStrip(_)
LStrip(s) ==
    IF s # <<>> /\ Head(s) \in Whitespace THEN LStrip(Tail(s)) ELSE s

RECURSIVE RStrip(_)
RStrip(s) ==
    IF s # <<>> /\ s[Len(s)] \in Whitespace
    THEN RStrip(SubSeq(s, 1, Len(s) - 1)) ELSE s

\* str.strip()
Strip(s) == RStrip(LStrip(s))

\* "\n".join(strs)
RECURSIVE JoinLines(_)
JoinLines(strs) ==
    IF strs = <<>> THEN <<>>
    ELSE IF Len(strs) = 1 THEN strs[1]
    ELSE strs[1] \o <<NL>> \o JoinLines(Tail(strs))

\* s.split("\n")
RECURSIVE SplitLines(_)
SplitLines(s) ==
    IF s = <<>> THEN << <<>> >>
    ELSE LET rest == SplitLines(Tail(s)) IN
         IF Head(s) = NL
         THEN << <<>> >> \o rest
         ELSE << <<Head(s)>> \o Head(rest) >> \o Tail(rest)

Range(q) == {q[i] : i \in 1..Len(q)}

----------------------------------------------------------------------------
\* Items of the list the generation backend returns

\* Option texts: plain ones, one with a leading space, one of two lines.
OptA == <<"a">>
OptB == <<"b">>
OptC == <<"c">>
OptD == <<"d">>
OptE == <<"e">>
OptPadded == <<SP, "a">>
OptTwoLines == <<"a", NL, "b">>
QuestionText == <<"q", SP>>

\* form "dict": an object with the three keys, question and correct_option
\* strings, options a list of strings; "question_not_str": the same with a
\* question that is not a string (a number, null); "options_not_list": the
\* same with options that are not a list; "missing_key"; "not_dict".
QuizItem(form, options, correct) ==
    [form |-> form, question |-> QuestionText, options |-> options,
     correct_option |-> correct]

QuizItems ==
    { QuizItem("dict", <<OptA, OptB, OptC, OptD>>, OptA),
      QuizItem("dict", <<OptA, OptB, OptC>>, OptA),
      QuizItem("dict", <<OptA, OptB, OptC, OptD, OptE>>, OptA),
      QuizItem("dict", <<OptA, OptB, OptC, OptD>>, OptE),
      QuizItem("dict", <<OptPadded, OptB, OptC, OptD>>, OptPadded),
      QuizItem("dict", <<OptTwoLines, OptC, OptD, OptE>>, OptC),
      QuizItem("question_not_str", <<OptA, OptB, OptC, OptD>>, OptA),
      QuizItem("options_not_list", <<>>, OptA),
      QuizItem("missing_key", <<>>, <<>>),
      QuizItem("not_dict", <<>>, <<>>) }

\* LearningResource.user_id: the user who created the resource; no code
\* changes it.
OwnerOf(rid) == IF rid = 1 THEN "user1" ELSE "user2"

\* Validation that accepts any number of options.
QuizItemKeptAnyCount(item) ==
    /\ item.form \notin {"not_dict", "missing_key"}
    /\ item.form # "options_not_list"
    /\ item.correct_option \in Range(item.options)

\* Lines 112-126 of generate_quiz_questions: the item passes the three
\* checks that `continue`.
QuizItemKept(item) ==
    /\ item.form \notin {"not_dict", "missing_key"}
    /\ item.form # "options_not_list" /\ Len(item.options) = 4
    /\ item.correct_option \in Range(item.options)

\* Lines 129-137: building the row raises (question.strip() on a value that
\* is not a string).
QuizItemRaises(item) == item.form = "question_not_str"

\* Lines 129-137: the row of a kept item.  batch and src are history: the
\* generator run that wrote the row (0: before the run modelled) and the
\* position of the item in the backend's list.
QuizRow(rid, item, i) ==
    [resource_id |-> rid, user_id |-> OwnerOf(rid),
     question |-> Strip(item.question),
     options |-> JoinLines(item.options),
     correct_option |-> Strip(item.correct_option),
     batch |-> 1, src |-> i]

\* get_quiz_questions: what a reader gets for a stored row.
QuizQuestionResponse(row) ==
    [question |-> row.question,
     options |-> SplitLines(row.options),
     correct_option |-> row.correct_option]

\* form "dict": an object with front and back strings; "front_not_str";
\* "missing_key"; "not_dict".
FlashItem(form, front, back) == [form |-> form, front |-> front, back |-> back]

FlashItems ==
    { FlashItem("dict", <<"f", SP>>, <<"b">>),
      FlashItem("dict", <<>>, <<"b">>),
      FlashItem("dict", <<"f">>, <<SP>>),
      FlashItem("front_not_str", <<>>, <<"b">>),
      FlashItem("missing_key", <<>>, <<>>),
      FlashItem("not_dict", <<>>, <<>>) }

\* Line 104 of generate_flash_cards: the item passes the check that
\* `continue`s.
FlashItemKept(item) == item.form \notin {"not_dict", "missing_key"}

\* Lines 108-113: building the row raises (front.strip() on a value that is
\* not a string).
FlashItemRaises(item) == item.form = "front_not_str"

\* Lines 108-113: the row of a kept item.
FlashRow(rid, item, i) ==
    [resource_id |-> rid, user_id |-> OwnerOf(rid),
     front |-> Strip(item.front),
     back |-> Strip(item.back),
     batch |-> 1, src |-> i]

\* Rows stored before the generator run modelled.
OldFlashRow(rid) ==
    [resource_id |-> rid, user_id |-> OwnerOf(rid),
     front |-> <<"f">>, back |-> <<"b">>, batch |-> 0, src |-> 0]
OldQuizRow(rid) ==
    [resource_id |-> rid, user_id |-> OwnerOf(rid), question |-> <<"q">>,
     options |-> JoinLines(<<OptA, OptB, OptC, OptD>>),
     correct_option |-> OptB, batch |-> 0, src |-> 0]

\* Longest list the backend returns.
MaxItems == 2

ItemSet(kind) == IF kind = "quiz" THEN QuizItems ELSE FlashItems

ItemLists(kind) ==
    UNION {[1..n -> ItemSet(kind)] : n \in 0..MaxItems}

\* What the backend call gives: an exception ("error"), text that is not
\* JSON, JSON that is not a list, or a list of items.
Contents(kind) ==
    {[form |-> f, items |-> <<>>] : f \in {"error", "bad_json", "not_list"}}
    \cup {[form |-> "list", items |-> l] : l \in ItemLists(kind)}

ItemKept(kind, item) ==
    IF kind = "quiz" THEN QuizItemKept(item) ELSE FlashItemKept(item)

ItemRaises(kind, item) ==
    IF kind = "quiz" THEN QuizItemRaises(item) ELSE FlashItemRaises(item)

\* Positions of the items that pass the checks.
KeptPositions(kind, items) ==
    {i \in 1..Len(items) : ItemKept(kind, items[i])}

\* The loop stops with an exception at a kept item whose row cannot be
\* built.
LoopRaises(kind, items) ==
    \E i \in KeptPositions(kind, items) : ItemRaises(kind, items[i])

\* The rows db.add()-ed by the loop over items i..Len(items).
RECURSIVE Rows(_, _, _, _)
Rows(kind, rid, items, i) ==
    IF i > Len(items) THEN <<>>
    ELSE (IF ItemKept(kind, items[i])
          THEN <<IF kind = "quiz" THEN QuizRow(rid, items[i], i)
                 ELSE FlashRow(rid, items[i], i)>>
          ELSE <<>>) \o Rows(kind, rid, items, i + 1)

\* Positions before the first kept item whose row cannot be built.
BeforeRaise(kind, items) ==
    {i \in 1..Len(items) :
        \A j \in 1..i : ~(ItemKept(kind, items[j]) /\ ItemRaises(kind, items[j]))}

----------------------------------------------------------------------------
\* generate_flash_cards and generate_quiz_questions

\* Rows a generator can find: any status, any transcript.
ArtifactRows ==
    [type : {"pdf"}, status : Statuses,
     transcript : {"", "text", "placeholder"},
     summary : {""}, title : {""}]

ArtifactInit ==
    /\ \E row \in ArtifactRows :
          store = [id \in ResourceIds |-> IF id = 1 THEN row ELSE NoRow]
    /\ sess = [id \in ResourceIds |-> NoRow]
    /\ pc = [id \in ResourceIds |-> "none"]
    /\ exc = [id \in ResourceIds |-> "none"]
    /\ raised = [id \in ResourceIds |-> "none"]
    /\ log = [id \in ResourceIds |-> <<>>]
    /\ nextId = 2
    /\ pilInstalled = TRUE
    /\ glyph = [id \in ResourceIds |-> "unset"]
    /\ gen = IdleGen
    /\ \/ flashCards = <<>> /\ quizQuestions = <<>>
       \/ flashCards = <<OldFlashRow(1)>> /\ quizQuestions = <<OldQuizRow(1)>>
    /\ ext = IdleExt
    /\ helper = IdleHelper
    /\ db = NoSessions
    /\ tree = SignedUp

ingestVars == <<sess, pc, exc, raised, log, nextId, pilInstalled, glyph>>

\* The route handler verifies that the resource exists and schedules the
\* generator.
StartGenerate(kind, id) ==
    /\ gen.pc = "idle"
    /\ store[id] # NoRow
    /\ gen' = [gen EXCEPT !.kind = kind, !.rid = id, !.pc = "load"]
    /\ UNCHANGED <<store, flashCards, quizQuestions, ingestVars, auxVars>>

\* GenLoad that records a failure on the resource when the transcript is
\* blank.
GenLoadMarksFailed ==
    /\ gen.pc = "load"
    /\ IF store[gen.rid] = NoRow
       THEN /\ gen' = [gen EXCEPT !.pc = "raised", !.outcome = "not_found"]
            /\ UNCHANGED store
       ELSE IF Blank(store[gen.rid].transcript)
       THEN /\ gen' = [gen EXCEPT !.pc = "done", !.outcome = "no_transcript"]
            /\ store' = [store EXCEPT ![gen.rid].status = "failed"]
       ELSE /\ gen' = [gen EXCEPT !.pc = "request"]
            /\ UNCHANGED store
    /\ GenSession
    /\ UNCHANGED <<flashCards, quizQuestions, ingestVars, ext, helper, tree>>

\* GenLoad that goes on to the backend whatever the transcript.
GenLoadNoTranscriptCheck ==
    /\ gen.pc = "load"
    /\ IF store[gen.rid] = NoRow
       THEN gen' = [gen EXCEPT !.pc = "raised", !.outcome = "not_found"]
       ELSE gen' = [gen EXCEPT !.pc = "request"]
    /\ GenSession
    /\ UNCHANGED <<store, flashCards, quizQuestions, ingestVars, ext, helper, tree>>

\* Load the resource: raise when it is absent, return when its transcript
\* is blank.
GenLoad ==
    /\ gen.pc = "load"
    /\ IF store[gen.rid] = NoRow
       THEN gen' = [gen EXCEPT !.pc = "raised", !.outcome = "not_found"]
       ELSE IF Blank(store[gen.rid].transcript)
       THEN gen' = [gen EXCEPT !.pc = "done", !.outcome = "no_transcript"]
       ELSE gen' = [gen EXCEPT !.pc = "request"]
    /\ GenSession
    /\ UNCHANGED <<store, flashCards, quizQuestions, ingestVars, ext, helper, tree>>

\* The request to the generation backend; an exception of the call (or of
\* reading the response) goes to the outer handler, which re-raises it.
GenRequest ==
    /\ gen.pc = "request"
    /\ \E c \in Contents(gen.kind) :
          IF c.form = "error"
          THEN gen' = [gen EXCEPT !.pc = "raised", !.outcome = "backend_error"]
          ELSE gen' = [gen EXCEPT !.pc = "persist", !.content = c]
    /\ GenSession
    /\ UNCHANGED <<store, flashCards, quizQuestions, ingestVars, ext, helper, tree>>

\* A generator that replaces the artifacts of its resource by the new rows.
StoredReplacing(rows) ==
    IF gen.kind = "quiz"
    THEN /\ quizQuestions' = NotOf(quizQuestions, gen.rid) \o rows
         /\ UNCHANGED flashCards
    ELSE /\ flashCards' = NotOf(flashCards, gen.rid) \o rows
         /\ UNCHANGED quizQuestions

\* The table of the generator's kind gets rows appended.
Stored(rows) ==
    IF gen.kind = "quiz"
    THEN /\ quizQuestions' = quizQuestions \o rows
         /\ UNCHANGED flashCards
    ELSE /\ flashCards' = flashCards \o rows
         /\ UNCHANGED quizQuestions

\* GenPersist that commits after each db.add().
GenPersistCommitsEach ==
    /\ gen.pc = "persist"
    /\ LET items == gen.content.items
           rows == Rows(gen.kind, gen.rid, items, 1)
       IN  IF gen.content.form # "list"
           THEN /\ gen' = [gen EXCEPT !.pc = "done", !.outcome = gen.content.form]
                /\ UNCHANGED <<flashCards, quizQuestions>>
           ELSE /\ gen' = [gen EXCEPT !.pc = "done", !.outcome =
                             IF LoopRaises(gen.kind, items)
                             THEN "item_error" ELSE "committed"]
                /\ Stored(SelectSeq(rows,
                      LAMBDA r : r.src \in BeforeRaise(gen.kind, items)))
    /\ GenSession
    /\ UNCHANGED <<store, ingestVars, ext, helper, tree>>

\* GenPersist whose commit does not check that the resource exists.
GenPersistNoForeignKey ==
    /\ gen.pc = "persist"
    /\ LET items == gen.content.items
           rows == Rows(gen.kind, gen.rid, items, 1)
       IN  IF gen.content.form # "list"
           THEN /\ gen' = [gen EXCEPT !.pc = "done", !.outcome = gen.content.form]
                /\ UNCHANGED <<flashCards, quizQuestions>>
           ELSE IF LoopRaises(gen.kind, items)
           THEN /\ gen' = [gen EXCEPT !.pc = "done", !.outcome = "item_error"]
                /\ UNCHANGED <<flashCards, quizQuestions>>
           ELSE /\ gen' = [gen EXCEPT !.pc = "done", !.outcome = "committed"]
                /\ Stored(rows)
    /\ GenSession
    /\ UNCHANGED <<store, ingestVars, ext, helper, tree>>

\* Parse the response, loop over the items, commit once.  Text that is not
\* JSON is logged; any other exception of the block (not a list, a row that
\* cannot be built, the commit) is logged and the session rolled back.  The
\* rows reference the resource (ForeignKey): the commit raises when the
\* resource was deleted meanwhile.
GenPersist ==
    /\ gen.pc = "persist"
    /\ LET items == gen.content.items
           rows == Rows(gen.kind, gen.rid, items, 1)
       IN  IF gen.content.form # "list"
           THEN /\ gen' = [gen EXCEPT !.pc = "done", !.outcome = gen.content.form]
                /\ UNCHANGED <<flashCards, quizQuestions>>
           ELSE IF LoopRaises(gen.kind, items)
           THEN /\ gen' = [gen EXCEPT !.pc = "done", !.outcome = "item_error"]
                /\ UNCHANGED <<flashCards, quizQuestions>>
           ELSE \/ /\ rows # <<>> => store[gen.rid] # NoRow
                   /\ gen' = [gen EXCEPT !.pc = "done", !.outcome = "committed"]
                   /\ Stored(rows)
                \/ /\ gen' = [gen EXCEPT !.pc = "done", !.outcome = "commit_error"]
                   /\ UNCHANGED <<flashCards, quizQuestions>>
    /\ GenSession
    /\ UNCHANGED <<store, ingestVars, ext, helper, tree>>

\* The batch of another invocation of a generator on the same resource.
OtherRows(kind, rid) ==
    IF kind = "quiz" THEN <<[OldQuizRow(rid) EXCEPT !.batch = 2]>>
    ELSE <<[OldFlashRow(rid) EXCEPT !.batch = 2]>>

\* Another invocation on the resource of the running generator, started by
\* a second request, commits its batch while this one is between its load
\* and its commit.  Its load and its backend call write nothing; its
\* commit is one transaction.
GenerateConcurrently(kind) ==
    /\ gen.pc \in {"request", "persist"}
    /\ store[gen.rid] # NoRow
    /\ \A i \in 1..Len(flashCards) : flashCards[i].batch # 2
    /\ \A i \in 1..Len(quizQuestions) : quizQuestions[i].batch # 2
    /\ IF kind = "quiz"
       THEN /\ quizQuestions' = quizQuestions \o OtherRows(kind, gen.rid)
            /\ UNCHANGED flashCards
       ELSE /\ flashCards' = flashCards \o OtherRows(kind, gen.rid)
            /\ UNCHANGED quizQuestions
    /\ UNCHANGED <<store, gen, ingestVars, auxVars>>

ArtifactNext ==
    \/ \E kind \in {"flash", "quiz"} : \E id \in ResourceIds :
          StartGenerate(kind, id)
    \/ GenLoad
    \/ GenRequest
    \/ GenPersist
    \/ \E kind \in {"flash", "quiz"} : GenerateConcurrently(kind)
    \/ \E id \in ResourceIds : DeleteResource(id)

ArtifactSpec == ArtifactInit /\ [][ArtifactNext]_vars

----------------------------------------------------------------------------
\* transcribe_audio, transcribe_pdf and transcribe_images, one invocation
\* followed statement by statement: the scratch files it creates and
\* unlinks, the download attempts, the images and their blocks.

\* Number of images of the image set.
MaxImages == 2

\* max_retries and retry_delay of transcribe_pdf.
max_retries == 6

retry_delay == 5

\* What the locator of an image looks like to lines 488-508:
\*   ours        an S3 URL of the configured bucket
\*   unparseable https://...s3... that the pattern does not match
\*   invalid     neither https S3 nor s3://
\*   foreign     an S3 URL of another bucket
\*   nosplit     s3:// without a "/": the tuple assignment raises
Locators == {"ours", "unparseable", "invalid", "foreign", "nosplit"}

\* The images of the resource, in the order the query returns them; upload
\* is the rank of the image by created_at.
ImageLists ==
    UNION {{imgs \in [1..n -> [upload : 1..n, locator : Locators]] :
               \A a, b \in 1..n : a # b => imgs[a].upload # imgs[b].upload} :
           n \in 0..MaxImages}

ExtractorKinds == {"audio", "pdf", "images"}

\* f"--- Image {i + 1} ---\n{note}"; upload remembers which image it was.
\* The errors field of the invocation collects the positions of the images
\* whose resolving, download or OCR failed.
Block(n, image, note) == [n |-> n, upload |-> image.upload, note |-> note]

\* The invocation starts: resource, db and the rows the query will return.
StartExtractor(kind, imgs) ==
    /\ ext = IdleExt
    /\ kind = "images" \/ imgs = <<>>
    /\ ext' = [kind |-> kind, pc |-> "entry", images |-> imgs, i |-> 1,
               created |-> 0, files |-> {}, failed |-> {},
               attempts |-> 0, waited |-> 0, lastCode |-> "none",
               pending |-> "none", blocks |-> <<>>, errors |-> {},
               transcript |-> "unset", outcome |-> "none"]
    /\ UNCHANGED <<store, ingestVars, artVars, helper, db, tree>>

\* Ends of the invocation.
ExtReturn(e, transcript) ==
    [e EXCEPT !.pc = "end", !.outcome = "returned", !.transcript = transcript]

ExtRaise(e) == [e EXCEPT !.pc = "end", !.outcome = "raised"]

\* What the statements before the first scratch file come to:
\*   import_error        an import ahead of the try block fails
\*   missing_dependency  pdf2image or pytesseract cannot be imported
\*   no_db               transcribe_images is called without a session
\*   bad_url             file_url is empty or not an S3 URL
EntryOutcomes(kind) ==
    CASE kind = "audio" -> {"import_error", "bad_url", "ok"}
      [] kind = "pdf" -> {"import_error", "missing_dependency", "bad_url", "ok"}
      [] kind = "images" -> {"import_error", "missing_dependency", "no_db", "ok"}

\* The statements before the first scratch file: the imports ahead of the
\* try block (an ImportError leaves the function), the dependency checks
\* (placeholder and return), the db and image queries, the file_url checks
\* (ValueError, caught by the outer except).
ExtEntry ==
    /\ ext.pc = "entry"
    /\ \E o \in EntryOutcomes(ext.kind) :
          ext' = CASE o = "import_error" -> ExtRaise(ext)
                   [] o \in {"missing_dependency", "no_db"} ->
                        ExtReturn(ext, "unavailable")
                   [] o = "bad_url" -> ExtReturn(ext, "failed")
                   [] o = "ok" ->
                        IF ext.kind # "images" THEN [ext EXCEPT !.pc = "create"]
                        ELSE IF ext.images = <<>> THEN ExtReturn(ext, "no_images")
                        ELSE [ext EXCEPT !.pc = "resolve"]
    /\ UNCHANGED <<store, ingestVars, artVars, helper, db, tree>>

\* The loop of transcribe_images moves to the next image, or ends.
NextImage(e) ==
    IF e.i < Len(e.images) THEN [e EXCEPT !.i = e.i + 1, !.pc = "resolve"]
    ELSE [e EXCEPT !.i = e.i + 1, !.pc = "combine"]

\* transcribe_images resolves the locator of image i (lines 488-508).
ExtResolve ==
    /\ ext.pc = "resolve"
    /\ LET image == ext.images[ext.i]
           e == [ext EXCEPT !.errors = ext.errors \cup {ext.i}]
       IN  ext' = CASE image.locator = "ours" -> [ext EXCEPT !.pc = "create"]
                    [] image.locator = "nosplit" ->
                         NextImage([e EXCEPT !.blocks =
                             Append(ext.blocks, Block(ext.i, image, "error"))])
                    [] OTHER -> NextImage(e)
    /\ UNCHANGED <<store, ingestVars, artVars, helper, db, tree>>

\* tempfile.NamedTemporaryFile(delete=False): a new scratch file.
ExtCreate ==
    /\ ext.pc = "create"
    /\ ext' = [ext EXCEPT !.created = ext.created + 1,
                          !.files = ext.files \cup {ext.created + 1},
                          !.pc = "download"]
    /\ UNCHANGED <<store, ingestVars, artVars, helper, db, tree>>

\* What one call of s3_client.download_file does: it succeeds, the store
\* answers 404 or 403 (ClientError), or the connection fails.
DownloadCodes == {"ok", "404", "403", "timeout"}

\* transcribe_pdf's retry loop that sleeps after every ClientError.
ExtDownloadRetriesAnyError ==
    /\ ext.pc = "download"
    /\ \E code \in DownloadCodes :
          LET e == [ext EXCEPT !.attempts = ext.attempts + 1, !.lastCode = code]
          IN  ext' =
                IF code = "ok" THEN [e EXCEPT !.pc = "process"]
                ELSE IF ext.kind = "pdf" /\ code \in {"404", "403"}
                        /\ ext.attempts < max_retries - 1
                     THEN [e EXCEPT !.waited = ext.waited + retry_delay]
                ELSE IF ext.kind = "images"
                     THEN [e EXCEPT !.pc = "cleanup", !.pending = "fallthrough",
                                    !.errors = ext.errors \cup {ext.i},
                                    !.blocks = Append(ext.blocks,
                                        Block(ext.i, ext.images[ext.i], "error"))]
                ELSE [e EXCEPT !.pc = "cleanup", !.pending = "raise"]
    /\ UNCHANGED <<store, ingestVars, artVars, helper, db, tree>>

\* A download whose failure leaves through the outer handler without the
\* finally clause.
ExtDownloadNoFinally ==
    /\ ext.pc = "download"
    /\ \E code \in DownloadCodes :
          LET e == [ext EXCEPT !.attempts = ext.attempts + 1, !.lastCode = code]
          IN  ext' =
                IF code = "ok" THEN [e EXCEPT !.pc = "process"]
                ELSE IF ext.kind = "pdf" /\ code = "404"
                        /\ ext.attempts < max_retries - 1
                     THEN [e EXCEPT !.waited = ext.waited + retry_delay]
                ELSE IF ext.kind = "images"
                     THEN [e EXCEPT !.pc = "cleanup", !.pending = "fallthrough",
                                    !.errors = ext.errors \cup {ext.i},
                                    !.blocks = Append(ext.blocks,
                                        Block(ext.i, ext.images[ext.i], "error"))]
                ELSE ExtReturn(e, "failed")
    /\ UNCHANGED <<store, ingestVars, artVars, helper, db, tree>>

\* A download whose failure in transcribe_images leaves no block.
ExtDownloadNoBlock ==
    /\ ext.pc = "download"
    /\ \E code \in DownloadCodes :
          LET e == [ext EXCEPT !.attempts = ext.attempts + 1, !.lastCode = code]
          IN  ext' =
                IF code = "ok" THEN [e EXCEPT !.pc = "process"]
                ELSE IF ext.kind = "pdf" /\ code = "404"
                        /\ ext.attempts < max_retries - 1
                     THEN [e EXCEPT !.waited = ext.waited + retry_delay]
                ELSE IF ext.kind = "images"
                     THEN [e EXCEPT !.pc = "cleanup", !.pending = "fallthrough",
                                    !.errors = ext.errors \cup {ext.i}]
                ELSE [e EXCEPT !.pc = "cleanup", !.pending = "raise"]
    /\ UNCHANGED <<store, ingestVars, artVars, helper, db, tree>>

\* One call of s3_client.download_file(bucket, key, scratch file).
\*   audio:  any error goes to the finally clause and the outer except.
\*   pdf:    for attempt in range(max_retries): a ClientError with code 404
\*           on an attempt before the last sleeps retry_delay and tries
\*           again; anything else is raised.
\*   images: the inner except records the error as the image's block.
ExtDownload ==
    /\ ext.pc = "download"
    /\ \E code \in DownloadCodes :
          LET e == [ext EXCEPT !.attempts = ext.attempts + 1, !.lastCode = code]
          IN  ext' =
                IF code = "ok" THEN [e EXCEPT !.pc = "process"]
                ELSE IF ext.kind = "pdf" /\ code = "404"
                        /\ ext.attempts < max_retries - 1
                     THEN [e EXCEPT !.waited = ext.waited + retry_delay]
                ELSE IF ext.kind = "images"
                     THEN [e EXCEPT !.pc = "cleanup", !.pending = "fallthrough",
                                    !.errors = ext.errors \cup {ext.i},
                                    !.blocks = Append(ext.blocks,
                                        Block(ext.i, ext.images[ext.i], "error"))]
                ELSE [e EXCEPT !.pc = "cleanup", !.pending = "raise"]
    /\ UNCHANGED <<store, ingestVars, artVars, helper, db, tree>>

\* What the work on the downloaded file comes to.
\*   text, no_text   recognised text, or none
\*   error           the backend, the converter or the OCR raises
\*   runtime_missing the error names a missing poppler or tesseract
ProcessOutcomes == {"text", "no_text", "error", "runtime_missing"}

\* The rest of the inner try block: transcription (audio), page conversion
\* and OCR (pdf), Image.open and OCR (images).
ExtProcess ==
    /\ ext.pc = "process"
    /\ \E o \in ProcessOutcomes :
          LET e == [ext EXCEPT !.pc = "cleanup"]
          IN  ext' =
                CASE ext.kind = "audio" ->
                       IF o = "text"
                       THEN [e EXCEPT !.transcript = "text", !.pending = "fallthrough"]
                       ELSE [e EXCEPT !.pending = "raise"]
                  [] ext.kind = "pdf" ->
                       IF o \in {"text", "no_text"}
                       THEN [e EXCEPT !.transcript = o, !.pending = "fallthrough"]
                       ELSE IF o = "runtime_missing"
                       THEN [e EXCEPT !.transcript = "unavailable", !.pending = "return"]
                       ELSE [e EXCEPT !.pending = "raise"]
                  [] ext.kind = "images" ->
                       IF o = "runtime_missing"
                       THEN [e EXCEPT !.transcript = "unavailable", !.pending = "return"]
                       ELSE [e EXCEPT !.pending = "fallthrough",
                                      !.errors = IF o = "error"
                                                 THEN ext.errors \cup {ext.i}
                                                 ELSE ext.errors,
                                      !.blocks = Append(ext.blocks,
                                          Block(ext.i, ext.images[ext.i], o))]
    /\ UNCHANGED <<store, ingestVars, artVars, helper, db, tree>>

\* The finally clause: os.unlink(scratch file) removes the file, or raises
\* OSError, which is logged; then control goes where it was going.
ExtCleanup ==
    /\ ext.pc = "cleanup"
    /\ \E removed \in BOOLEAN :
          LET e == IF removed
                   THEN [ext EXCEPT !.files = ext.files \ {ext.created},
                                    !.pending = "none"]
                   ELSE [ext EXCEPT !.failed = ext.failed \cup {ext.created},
                                    !.pending = "none"]
          IN  ext' = CASE ext.pending = "raise" -> ExtReturn(e, "failed")
                       [] ext.pending = "return" -> ExtReturn(e, e.transcript)
                       [] ext.pending = "fallthrough" ->
                            IF ext.kind = "images" THEN NextImage(e)
                            ELSE ExtReturn(e, e.transcript)
    /\ UNCHANGED <<store, ingestVars, artVars, helper, db, tree>>

\* After the loop of transcribe_images: "\n\n".join of the blocks, or the
\* message that no text could be extracted.
ExtCombine ==
    /\ ext.pc = "combine"
    /\ ext' = IF ext.blocks # <<>> THEN ExtReturn(ext, "blocks")
              ELSE ExtReturn(ext, "no_text")
    /\ UNCHANGED <<store, ingestVars, artVars, helper, db, tree>>

ExtractorInit ==
    /\ store = [id \in ResourceIds |-> NoRow]
    /\ sess = [id \in ResourceIds |-> NoRow]
    /\ pc = [id \in ResourceIds |-> "none"]
    /\ exc = [id \in ResourceIds |-> "none"]
    /\ raised = [id \in ResourceIds |-> "none"]
    /\ log = [id \in ResourceIds |-> <<>>]
    /\ nextId = 1
    /\ pilInstalled = TRUE
    /\ glyph = [id \in ResourceIds |-> "unset"]
    /\ gen = IdleGen
    /\ flashCards = <<>>
    /\ quizQuestions = <<>>
    /\ ext = IdleExt
    /\ helper = IdleHelper
    /\ db = NoSessions
    /\ tree = SignedUp

ExtractorNext ==
    \/ \E kind \in ExtractorKinds : \E imgs \in ImageLists :
          StartExtractor(kind, imgs)
    \/ ExtEntry
    \/ ExtResolve
    \/ ExtCreate
    \/ ExtDownload
    \/ ExtProcess
    \/ ExtCleanup
    \/ ExtCombine

ExtractorSpec == ExtractorInit /\ [][ExtractorNext]_vars

----------------------------------------------------------------------------
\* format_transcript_for_display and extract_youtube_video_id, called on
\* their own.  Texts are sequences of characters.

\* The characters of the texts and URL parts used below.
Chars ==
    "youtube.com/watch?v=" :>
        <<"y", "o", "u", "t", "u", "b", "e", ".", "c", "o", "m", "/", "w",
          "a", "t", "c", "h", "?", "v", "=">>
    @@ "youtu.be/" :> <<"y", "o", "u", "t", "u", ".", "b", "e", "/">>
    @@ "youtube.com/embed/" :>
        <<"y", "o", "u", "t", "u", "b", "e", ".", "c", "o", "m", "/", "e",
          "m", "b", "e", "d", "/">>
    @@ "youtube.com/watch?" :>
        <<"y", "o", "u", "t", "u", "b", "e", ".", "c", "o", "m", "/", "w",
          "a", "t", "c", "h", "?">>
    @@ "https://" :> <<"h", "t", "t", "p", "s", ":", "/", "/">>
    @@ "www.youtube.com" :>
        <<"w", "w", "w", ".", "y", "o", "u", "t", "u", "b", "e", ".", "c",
          "o", "m">>
    @@ "m.youtube.com" :>
        <<"m", ".", "y", "o", "u", "t", "u", "b", "e", ".", "c", "o", "m">>
    @@ "youtube.com" :>
        <<"y", "o", "u", "t", "u", "b", "e", ".", "c", "o", "m">>
    @@ "youtu.be" :> <<"y", "o", "u", "t", "u", ".", "b", "e">>
    @@ "example.com" :>
        <<"e", "x", "a", "m", "p", "l", "e", ".", "c", "o", "m">>
    @@ "/watch?v=" :> <<"/", "w", "a", "t", "c", "h", "?", "v", "=">>
    @@ "/watch?t=1&v=" :>
        <<"/", "w", "a", "t", "c", "h", "?", "t", "=", "1", "&", "v", "=">>
    @@ "/watch?list=" :>
        <<"/", "w", "a", "t", "c", "h", "?", "l", "i", "s", "t", "=">>
    @@ "/embed/" :> <<"/", "e", "m", "b", "e", "d", "/">>
    @@ "/shorts/" :> <<"/", "s", "h", "o", "r", "t", "s", "/">>
    @@ "/" :> <<"/">>
    @@ "abcDEFghi12" :>
        <<"a", "b", "c", "D", "E", "F", "g", "h", "i", "1", "2">>
    @@ "abcDEFghi1" :> <<"a", "b", "c", "D", "E", "F", "g", "h", "i", "1">>
    @@ "abcDEFghi12X" :>
        <<"a", "b", "c", "D", "E", "F", "g", "h", "i", "1", "2", "X">>
    @@ "abc!EFghi12" :>
        <<"a", "b", "c", "!", "E", "F", "g", "h", "i", "1", "2">>
    @@ "&t=5" :> <<"&", "t", "=", "5">>
    @@ "&v=zyxWVUtsr98" :>
        <<"&", "v", "=", "z", "y", "x", "W", "V", "U", "t", "s", "r", "9",
          "8">>
    @@ "hello world" :>
        <<"h", "e", "l", "l", "o", " ", "w", "o", "r", "l", "d">>
    @@ "Next thought" :>
        <<"N", "e", "x", "t", " ", "t", "h", "o", "u", "g", "h", "t">>
    @@ "Hello world." :>
        <<"H", "e", "l", "l", "o", " ", "w", "o", "r", "l", "d", ".">>
    @@ " " :> <<" ">>
    @@ "ok." :> <<"o", "k", ".">>
    @@ " so" :> <<" ", "s", "o">>
    @@ "2nd" :> <<"2", "n", "d">>
    @@ "zyxWVUtsr98" :> <<"z", "y", "x", "W", "V", "U", "t", "s", "r", "9", "8">>
    @@ "--- Page " :> <<"-", "-", "-", " ", "P", "a", "g", "e", " ">>
    @@ " ---" :> <<" ", "-", "-", "-">>
    @@ "123456789" :> <<"1", "2", "3", "4", "5", "6", "7", "8", "9">>
    @@ "" :> <<>>

Lowercase ==
    <<"a", "b", "c", "d", "e", "f", "g", "h", "i", "j", "k", "l", "m">> \o
    <<"n", "o", "p", "q", "r", "s", "t", "u", "v", "w", "x", "y", "z">>

Uppercase ==
    <<"A", "B", "C", "D", "E", "F", "G", "H", "I", "J", "K", "L", "M">> \o
    <<"N", "O", "P", "Q", "R", "S", "T", "U", "V", "W", "X", "Y", "Z">>

\* str.islower() and str.isupper() of one character, and the class [a-z].
IsLower(c) == c \in Range(Lowercase)

IsUpper(c) == c \in Range(Uppercase)

\* str.upper() of one character.
UpperOf(c) ==
    IF IsLower(c) THEN Uppercase[CHOOSE k \in 1..Len(Lowercase) : Lowercase[k] = c]
    ELSE c

\* The characters of '.!?'.
Terminal == {".", "!", "?"}

\* sep.join(strs)
RECURSIVE JoinWith(_, _)
JoinWith(strs, sep) ==
    IF strs = <<>> THEN <<>>
    ELSE IF Len(strs) = 1 THEN strs[1]
    ELSE strs[1] \o sep \o JoinWith(Tail(strs), sep)

\* re.sub(r'\s+', ' ', s)
RECURSIVE CollapseWhitespace(_)
CollapseWhitespace(s) ==
    IF s = <<>> THEN <<>>
    ELSE IF Head(s) \in Whitespace THEN <<SP>> \o CollapseWhitespace(LStrip(s))
    ELSE <<Head(s)>> \o CollapseWhitespace(Tail(s))

\* re.sub(r'\s+([.!?])', r'\1', s)
RECURSIVE RemoveSpaceBeforePunctuation(_)
RemoveSpaceBeforePunctuation(s) ==
    IF s = <<>> THEN <<>>
    ELSE IF Head(s) \in Whitespace
    THEN LET rest == LStrip(s) IN
         IF rest # <<>> /\ Head(rest) \in Terminal
         THEN RemoveSpaceBeforePunctuation(rest)
         ELSE SubSeq(s, 1, Len(s) - Len(rest)) \o RemoveSpaceBeforePunctuation(rest)
    ELSE <<Head(s)>> \o RemoveSpaceBeforePunctuation(Tail(s))

\* re.sub(r'([.!?])\s*([a-z])', r'\1 \2', s)
RECURSIVE SpaceAfterPunctuation(_)
SpaceAfterPunctuation(s) ==
    IF s = <<>> THEN <<>>
    ELSE IF Head(s) \in Terminal
    THEN LET rest == LStrip(Tail(s)) IN
         IF rest # <<>> /\ IsLower(Head(rest))
         THEN <<Head(s), SP, Head(rest)>> \o SpaceAfterPunctuation(Tail(rest))
         ELSE <<Head(s)>> \o SpaceAfterPunctuation(Tail(s))
    ELSE <<Head(s)>> \o SpaceAfterPunctuation(Tail(s))

\* Lines 98-105: the paragraphs joined and cleaned up.
CleanUp(formatted_segments) ==
    Strip(SpaceAfterPunctuation(RemoveSpaceBeforePunctuation(
        CollapseWhitespace(JoinWith(formatted_segments, <<NL, NL>>)))))

\* Number of segments of a caption list.
MaxSegments == 2

\* Texts of caption segments: lower-case and capitalised starts, with and
\* without terminal punctuation, padded, starting with a digit, and blank.
SegmentTexts ==
    {Chars["hello world"], Chars["Next thought"], Chars[" "], Chars["ok."],
     Chars[" so"], Chars["2nd"]}

\* Seconds between the end of a segment and the start of the next.
Gaps == {2, 3, 4}

\* Thresholds of lines 73 and 84.
period_gap == 2

paragraph_gap == 3

RECURSIVE StartOf(_, _)
StartOf(gaps, k) == IF k = 1 THEN 0 ELSE StartOf(gaps, k - 1) + 1 + gaps[k]

\* Caption lists as the captions backend returns them: text, start and
\* duration, ordered by start.
SegmentLists ==
    UNION {{[k \in 1..n |-> [text |-> texts[k], start |-> StartOf(gaps, k),
                             duration |-> 1]] :
               texts \in [1..n -> SegmentTexts],
               gaps \in {g \in [1..n -> Gaps] : n = 0 \/ g[1] = 2}} :
           n \in 0..MaxSegments}

\* format_transcript_for_display(transcript_list) is called.
CallFormat(list) ==
    /\ helper = IdleHelper
    /\ helper' = [name |-> "format_transcript_for_display", arg |-> list,
                  pc |-> IF list = <<>> THEN "done" ELSE "loop",
                  i |-> 1, current_paragraph |-> <<>>,
                  formatted_segments |-> <<>>, last_end_time |-> 0,
                  added |-> {}, result |-> <<>>]
    /\ UNCHANGED <<store, ingestVars, artVars, ext, db, tree>>

\* Lines 64-74 with the period appended whenever a following segment exists.
WithPeriodWheneverFollowed(list, i) ==
    LET text == Strip(list[i].text) IN
    IF text[Len(text)] \notin Terminal /\ i + 1 <= Len(list)
    THEN text \o <<".">>
    ELSE text

\* Lines 64-74: the stripped, non-empty text of segment i with a period
\* appended if it lacks terminal punctuation and the next entry starts with
\* a capital or begins more than period_gap after this one ends.
WithPeriod(list, i) ==
    LET text == Strip(list[i].text) IN
    IF text[Len(text)] \notin Terminal /\ i + 1 <= Len(list)
    THEN LET next_entry == list[i + 1]
             next_text == Strip(next_entry.text)
             time_gap == next_entry.start - (list[i].start + list[i].duration)
         IN  IF (next_text # <<>> /\ IsUpper(next_text[1])) \/ time_gap > period_gap
             THEN text \o <<".">>
             ELSE text
    ELSE text

\* Lines 77-78.
Capitalized(text) ==
    IF text # <<>> /\ IsLower(text[1]) THEN <<UpperOf(text[1])>> \o Tail(text)
    ELSE text

\* One iteration of the loop of line 56.
FormatSegment ==
    /\ helper.name = "format_transcript_for_display"
    /\ helper.pc = "loop"
    /\ LET list == helper.arg
           i == helper.i
           entry == list[i]
           after == [helper EXCEPT !.i = i + 1,
                                   !.pc = IF i < Len(list) THEN "loop" ELSE "finish"]
       IN  IF Strip(entry.text) = <<>>
           THEN helper' = after
           ELSE LET text == Capitalized(WithPeriod(list, i))
                    paragraph == Append(helper.current_paragraph, text)
                    time_gap == IF helper.last_end_time > 0
                                THEN entry.start - helper.last_end_time ELSE 0
                    flush == time_gap > paragraph_gap
                IN  helper' = [after EXCEPT
                       !.added = IF WithPeriod(list, i) # Strip(entry.text)
                                 THEN helper.added \cup {i} ELSE helper.added,
                       !.current_paragraph = IF flush THEN <<>> ELSE paragraph,
                       !.formatted_segments =
                           IF flush
                           THEN Append(helper.formatted_segments,
                                       JoinWith(paragraph, <<SP>>))
                           ELSE helper.formatted_segments,
                       !.last_end_time = entry.start + entry.duration]
    /\ UNCHANGED <<store, ingestVars, artVars, ext, db, tree>>

\* Lines 92-105: the remaining paragraph, the join, the clean-up.
FormatFinish ==
    /\ helper.name = "format_transcript_for_display"
    /\ helper.pc = "finish"
    /\ LET segments == IF helper.current_paragraph # <<>>
                       THEN Append(helper.formatted_segments,
                                   JoinWith(helper.current_paragraph, <<SP>>))
                       ELSE helper.formatted_segments
       IN  helper' = [helper EXCEPT !.pc = "done",
                                    !.current_paragraph = <<>>,
                                    !.formatted_segments = segments,
                                    !.result = CleanUp(segments)]
    /\ UNCHANGED <<store, ingestVars, artVars, ext, db, tree>>

\* The class [a-zA-Z0-9_-].
IdChars == Range(Lowercase) \cup Range(Uppercase)
      \cup {"0", "1", "2", "3", "4", "5", "6", "7", "8", "9", "_", "-"}

\* The literal lit occurs in s at position p.
StartsWith(s, p, lit) ==
    /\ p + Len(lit) - 1 <= Len(s)
    /\ SubSeq(s, p, p + Len(lit) - 1) = lit

\* ([a-zA-Z0-9_-]{11}) matches at position p.
IdAt(s, p) ==
    /\ p >= 1
    /\ p + 10 <= Len(s)
    /\ \A k \in p..(p + 10) : s[k] \in IdChars

\* Where group 1 starts in each match of
\* (?:youtube\.com/watch\?v=|youtu\.be/|youtube\.com/embed/)([a-zA-Z0-9_-]{11}),
\* as pairs <<start of the match, start of the group>>.
FirstPatternMatches(s) ==
    {<<p, p + Len(lit)>> : p \in 1..Len(s), lit \in {Chars["youtube.com/watch?v="], Chars["youtu.be/"], Chars["youtube.com/embed/"]}}
      \cap {m \in (1..Len(s)) \X (1..(Len(s) + 1)) :
               /\ \E lit \in {Chars["youtube.com/watch?v="], Chars["youtu.be/"], Chars["youtube.com/embed/"]} :
                     m[2] = m[1] + Len(lit) /\ StartsWith(s, m[1], lit)
               /\ IdAt(s, m[2])}

\* The same for youtube\.com/watch\?.*v=([a-zA-Z0-9_-]{11}); `.` does not
\* match a line break.
SecondPatternMatches(s) ==
    {m \in (1..Len(s)) \X (1..(Len(s) + 1)) :
        /\ StartsWith(s, m[1], Chars["youtube.com/watch?"])
        /\ m[2] >= m[1] + Len(Chars["youtube.com/watch?"]) + 2
        /\ StartsWith(s, m[2] - 2, <<"v", "=">>)
        /\ IdAt(s, m[2])
        /\ \A k \in (m[1] + Len(Chars["youtube.com/watch?"]))..(m[2] - 3) : s[k] # NL}

\* re.search: the leftmost match, and for the greedy .* the last v= that
\* lets the rest match; group(1) of it.
Group1(s, matches) ==
    LET p == CHOOSE p \in {m[1] : m \in matches} :
                 \A m \in matches : p <= m[1]
        g == CHOOSE g \in {m[2] : m \in {n \in matches : n[1] = p}} :
                 \A m \in {n \in matches : n[1] = p} : m[2] <= g
    IN  SubSeq(s, g, g + 10)

\* extract_youtube_video_id with the first pattern only.
ExtractWithFirstPatternOnly(url) ==
    IF FirstPatternMatches(url) # {}
    THEN [outcome |-> "returned", id |-> Group1(url, FirstPatternMatches(url))]
    ELSE [outcome |-> "ValueError", id |-> <<>>]

\* The patterns are tried in order; ValueError if none matches.
extract_youtube_video_id(url) ==
    IF FirstPatternMatches(url) # {}
    THEN [outcome |-> "returned", id |-> Group1(url, FirstPatternMatches(url))]
    ELSE IF SecondPatternMatches(url) # {}
    THEN [outcome |-> "returned", id |-> Group1(url, SecondPatternMatches(url))]
    ELSE [outcome |-> "ValueError", id |-> <<>>]

\* URLs given to the parser, in parts: host, path, a run of identifier
\* characters (of 11, 10 and 12 characters, broken by another character,
\* or none) and the rest of the query.
UrlParts ==
    [host : {"www.youtube.com", "m.youtube.com", "youtube.com", "youtu.be",
             "example.com"},
     path : {"/watch?v=", "/watch?t=1&v=", "/watch?list=", "/embed/",
             "/shorts/", "/"},
     id : {"abcDEFghi12", "abcDEFghi1", "abcDEFghi12X", "abc!EFghi12", ""},
     tail : {"", "&t=5", "&v=zyxWVUtsr98"}]

UrlOf(parts) ==
    Chars["https://"] \o Chars[parts.host] \o Chars[parts.path]
        \o Chars[parts.id] \o Chars[parts.tail]

\* extract_youtube_video_id(url) is called.
CallExtractVideoId(parts) ==
    /\ helper = IdleHelper
    /\ helper' = [name |-> "extract_youtube_video_id", pc |-> "search", arg |-> parts,
                  url |-> UrlOf(parts), outcome |-> "none", result |-> <<>>]
    /\ UNCHANGED <<store, ingestVars, artVars, ext, db, tree>>

\* The function returns the identifier or raises.
ExtractVideoId ==
    /\ helper.name = "extract_youtube_video_id"
    /\ helper.pc = "search"
    /\ LET r == extract_youtube_video_id(helper.url)
       IN  helper' = [helper EXCEPT !.pc = "done", !.outcome = r.outcome,
                                    !.result = r.id]
    /\ UNCHANGED <<store, ingestVars, artVars, ext, db, tree>>

\* str.strip() and str.strip(chars) of a long text: the text without its
\* leading and trailing characters of the set.
StripChars(s, chars) ==
    LET n == Len(s)
        first == CHOOSE i \in 1..(n + 1) :
                    /\ i = n + 1 \/ s[i] \notin chars
                    /\ \A j \in 1..(i - 1) : s[j] \in chars
        last == CHOOSE i \in 0..n :
                    /\ i = 0 \/ s[i] \notin chars
                    /\ \A j \in (i + 1)..n : s[j] \in chars
    IN  SubSeq(s, first, last)

\* Lines 88-89 and 232-233: a text of more than 200 characters is cut to
\* its first 200 and stripped again.
Limited(s) ==
    IF Len(s) > 200 THEN StripChars(SubSeq(s, 1, 200), Whitespace) ELSE s

\* What a title generator does with the text it got: the title it writes
\* to resource.title, or nothing.
\* generate_resource_title, lines 78-93: return on a blank text; strip,
\* strip the quotes, limit; return if nothing is left.
\* gen_youtube_title, lines 227-236: nothing on a falsy title; strip, limit.
TitleFrom(name, text) ==
    LET stripped == StripChars(text, Whitespace)
        cleaned == Limited(StripChars(stripped, {"\"", "'"}))
    IN  IF name = "generate_resource_title"
        THEN IF stripped = <<>> \/ cleaned = <<>>
             THEN [outcome |-> "returned", result |-> <<>>]
             ELSE [outcome |-> "written", result |-> cleaned]
        ELSE IF text = <<>>
             THEN [outcome |-> "returned", result |-> <<>>]
             ELSE [outcome |-> "written", result |-> Limited(stripped)]

\* Texts a backend returns: up to three runs of spaces, quotes and letters,
\* each of no, one or 200 characters.
TitleTexts ==
    LET runs == {[i \in 1..n |-> c] : c \in {SP, "\"", "t"}, n \in {0, 1, 200}}
    IN  {a \o b \o c : a \in runs, b \in runs, c \in runs}

\* A title generator has the text of its backend.
CallTitleGenerator(name, text) ==
    /\ helper = IdleHelper
    /\ helper' = [name |-> name, pc |-> "clean", arg |-> text,
                  outcome |-> "none", result |-> <<>>]
    /\ UNCHANGED <<store, ingestVars, artVars, ext, db, tree>>

\* It cleans the text and writes the title, or returns without writing.
WriteTitle ==
    /\ helper.name \in {"generate_resource_title", "gen_youtube_title"}
    /\ helper.pc = "clean"
    /\ LET r == TitleFrom(helper.name, helper.arg)
       IN  helper' = [helper EXCEPT !.pc = "done", !.outcome = r.outcome,
                                    !.result = r.result]
    /\ UNCHANGED <<store, ingestVars, artVars, ext, db, tree>>

\* Most pages of a document.
MaxPages == 3

\* What pytesseract.image_to_string gives for a page: text with white space
\* around it, white space only, an exception, or the exception of a
\* missing Tesseract.
PageResults ==
    {[o |-> "text", text |-> <<SP, "a", NL>>],
     [o |-> "text", text |-> <<"b">>],
     [o |-> "text", text |-> <<SP, NL>>],
     [o |-> "error", text |-> <<>>],
     [o |-> "runtime_missing", text |-> <<>>]}

\* Lines 372-373: the loop of transcribe_pdf over the page images starts.
CallOcrPages(pages) ==
    /\ helper = IdleHelper
    /\ helper' = [name |-> "transcribe_pdf", pc |-> "loop", arg |-> pages,
                  i |-> 0, extracted_text_pages |-> <<>>,
                  outcome |-> "none", result |-> <<>>]
    /\ UNCHANGED <<store, ingestVars, artVars, ext, db, tree>>

\* A loop body that numbers a block by its place among the blocks.
OcrPageCountsBlocks ==
    /\ helper.name = "transcribe_pdf"
    /\ helper.pc = "loop"
    /\ helper.i < Len(helper.arg)
    /\ LET page == helper.arg[helper.i + 1]
           n == Len(helper.extracted_text_pages) + 1
           block == Chars["--- Page "] \o <<Chars["123456789"][n]>>
                      \o Chars[" ---"] \o <<NL>> \o Strip(page.text)
       IN  helper' =
             IF page.o = "runtime_missing"
             THEN [helper EXCEPT !.pc = "done", !.outcome = "runtime_missing"]
             ELSE IF page.o = "text" /\ Strip(page.text) # <<>>
             THEN [helper EXCEPT !.i = helper.i + 1,
                     !.extracted_text_pages = Append(@, block)]
             ELSE [helper EXCEPT !.i = helper.i + 1]
    /\ UNCHANGED <<store, ingestVars, artVars, ext, db, tree>>

\* Lines 373-394, one pass of the loop: OCR of page i; stripped text that
\* is not empty is appended under the header of page i + 1; a page
\* without text and a page whose OCR raises are passed over; a missing
\* Tesseract ends the function with its message.
OcrPage ==
    /\ helper.name = "transcribe_pdf"
    /\ helper.pc = "loop"
    /\ helper.i < Len(helper.arg)
    /\ LET page == helper.arg[helper.i + 1]
           block == Chars["--- Page "] \o <<Chars["123456789"][helper.i + 1]>>
                      \o Chars[" ---"] \o <<NL>> \o Strip(page.text)
       IN  helper' =
             IF page.o = "runtime_missing"
             THEN [helper EXCEPT !.pc = "done", !.outcome = "runtime_missing"]
             ELSE IF page.o = "text" /\ Strip(page.text) # <<>>
             THEN [helper EXCEPT !.i = helper.i + 1,
                     !.extracted_text_pages = Append(@, block)]
             ELSE [helper EXCEPT !.i = helper.i + 1]
    /\ UNCHANGED <<store, ingestVars, artVars, ext, db, tree>>

\* Lines 397-403, after the loop: the blocks joined by an empty line, or
\* the message that no text could be extracted.
OcrCombine ==
    /\ helper.name = "transcribe_pdf"
    /\ helper.pc = "loop"
    /\ helper.i = Len(helper.arg)
    /\ helper' =
          IF helper.extracted_text_pages # <<>>
          THEN [helper EXCEPT !.pc = "done", !.outcome = "joined",
                  !.result = JoinWith(helper.extracted_text_pages, <<NL, NL>>)]
          ELSE [helper EXCEPT !.pc = "done", !.outcome = "no_text"]
    /\ UNCHANGED <<store, ingestVars, artVars, ext, db, tree>>

HelperInit ==
    /\ store = [id \in ResourceIds |-> NoRow]
    /\ sess = [id \in ResourceIds |-> NoRow]
    /\ pc = [id \in ResourceIds |-> "none"]
    /\ exc = [id \in ResourceIds |-> "none"]
    /\ raised = [id \in ResourceIds |-> "none"]
    /\ log = [id \in ResourceIds |-> <<>>]
    /\ nextId = 1
    /\ pilInstalled = TRUE
    /\ glyph = [id \in ResourceIds |-> "unset"]
    /\ gen = IdleGen
    /\ flashCards = <<>>
    /\ quizQuestions = <<>>
    /\ ext = IdleExt
    /\ helper = IdleHelper
    /\ db = NoSessions
    /\ tree = SignedUp

HelperNext ==
    \/ \E list \in SegmentLists : CallFormat(list)
    \/ FormatSegment
    \/ FormatFinish
    \/ \E parts \in UrlParts : CallExtractVideoId(parts)
    \/ ExtractVideoId
    \/ \E name \in {"generate_resource_title", "gen_youtube_title"} :
          \E text \in TitleTexts : CallTitleGenerator(name, text)
    \/ WriteTitle
    \/ \E n \in 0..MaxPages : \E pages \in [1..n -> PageResults] :
          CallOcrPages(pages)
    \/ OcrPage
    \/ OcrCombine

HelperSpec == HelperInit /\ [][HelperNext]_vars

----------------------------------------------------------------------------
\* The ingestion tasks and a generator task side by side, each with the
\* session it opened.

SessionNext == Next \/ ArtifactNext

SessionSpec == Init /\ [][SessionNext]_vars

----------------------------------------------------------------------------
\* Folders: create_folder, create_resource and delete_folder on the store
\* of two users.

\* create_folder, lines 322-341: a parent, when given, must exist and belong
\* to the user; the folder gets the next id.
CreateFolder(user, parent) ==
    /\ tree.next_folder <= MaxFolders
    /\ IF parent # 0 /\ (tree.folders[parent] = NoRow
                         \/ tree.folders[parent].user_id # user)
       THEN UNCHANGED tree
       ELSE tree' = [tree EXCEPT
                       !.folders[tree.next_folder] =
                           [user_id |-> user, parent_folder_id |-> parent],
                       !.next_folder = @ + 1]
    /\ UNCHANGED <<store, ingestVars, artVars, ext, helper, db>>

\* create_resource, lines 265-297, with the rows later made for the
\* resource (images, flash cards, quiz questions), which carry the
\* resource's user_id.  The folder is not looked up: the insert needs only
\* that folder_id references a folder (ForeignKey).
CreateResourceInFolder(user, folder, tables) ==
    /\ tree.next_resource <= MaxFiled
    /\ tree.folders[folder] # NoRow
    /\ tree' = [tree EXCEPT
                  !.resources[tree.next_resource] =
                      [user_id |-> user, folder_id |-> folder],
                  !.artifacts = @ \cup
                      {[table |-> t, made_for |-> tree.next_resource,
                        resource_id |-> tree.next_resource, user_id |-> user] :
                          t \in tables},
                  !.next_resource = @ + 1]
    /\ UNCHANGED <<store, ingestVars, artVars, ext, helper, db>>

\* _recursive_delete_folder_contents, lines 791-842: the user's subfolders
\* of the folder, each after its own contents, and the user's resources in
\* the folder are marked for deletion.
RECURSIVE FolderContents(_, _)
FolderContents(folder, user) ==
    LET subfolders == {g \in 1..MaxFolders :
                          /\ tree.folders[g] # NoRow
                          /\ tree.folders[g].parent_folder_id = folder
                          /\ tree.folders[g].user_id = user}
        resources == {r \in 1..MaxFiled :
                          /\ tree.resources[r] # NoRow
                          /\ tree.resources[r].folder_id = folder
                          /\ tree.resources[r].user_id = user}
    IN  [folders |-> subfolders \cup
                       UNION {FolderContents(g, user).folders : g \in subfolders},
         resources |-> resources \cup
                       UNION {FolderContents(g, user).resources : g \in subfolders}]

\* delete_folder, lines 757-777: folder 1 is refused, a folder that does
\* not exist or is not the user's is not found; the contents are deleted
\* recursively, the rows of the three tables by queries on resource_id and
\* user_id; then the commit.  The commit raises, and nothing is changed,
\* when a row that stays references a deleted one through a column no
\* relationship manages: a user's root_folder_id, the resource_id of a quiz
\* question or of an image.  Rows that stay and reference a deleted row
\* through a relationship without delete cascade (subfolders, resources,
\* flash_cards) get the column set to NULL.
DeleteFolder(user, folder) ==
    /\ IF \/ folder = 1
          \/ tree.folders[folder] = NoRow
          \/ tree.folders[folder].user_id # user
       THEN UNCHANGED tree
       ELSE LET contents == FolderContents(folder, user)
                folders == contents.folders \cup {folder}
                resources == contents.resources
                kept == {a \in tree.artifacts :
                            ~(a.resource_id \in resources /\ a.user_id = user)}
            IN  IF \/ \E u \in Users : tree.root_folder_id[u] \in folders
                   \/ \E a \in kept : /\ a.table # "flash_cards"
                                      /\ a.resource_id \in resources
                THEN UNCHANGED tree
                ELSE tree' = [tree EXCEPT
                       !.folders = [g \in 1..MaxFolders |->
                          IF g \in folders \/ tree.folders[g] = NoRow THEN NoRow
                          ELSE IF tree.folders[g].parent_folder_id \in folders
                          THEN [tree.folders[g] EXCEPT !.parent_folder_id = 0]
                          ELSE tree.folders[g]],
                       !.resources = [r \in 1..MaxFiled |->
                          IF r \in resources \/ tree.resources[r] = NoRow
                          THEN NoRow
                          ELSE IF tree.resources[r].folder_id \in folders
                          THEN [tree.resources[r] EXCEPT !.folder_id = 0]
                          ELSE tree.resources[r]],
                       !.artifacts =
                          {IF a.resource_id \in resources
                           THEN [a EXCEPT !.resource_id = 0] ELSE a : a \in kept}]
    /\ UNCHANGED <<store, ingestVars, artVars, ext, helper, db>>

\* The store after sign-up with nothing uploaded.
FolderInit == Init /\ pilInstalled

FolderNext ==
    \/ \E user \in Users : \E parent \in 0..MaxFolders : CreateFolder(user, parent)
    \/ \E user \in Users : \E folder \in 1..MaxFolders :
          \E tables \in {{}, ArtifactTables} :
             CreateResourceInFolder(user, folder, tables)
    \/ \E user \in Users : \E folder \in 1..MaxFolders : DeleteFolder(user, folder)

FolderSpec == FolderInit /\ [][FolderNext]_vars

----------------------------------------------------------------------------
\* Reading the history of a task

Ended(id) == pc[id] \in {"done", "raised"}

Loaded(id) == sess[id] # NoRow

Occurs(id, e) == \E i \in 1..Len(log[id]) : log[id][i] = e

\* Every occurrence of event e in the task's history has an earlier b.
Preceded(id, b, e) ==
    \A j \in 1..Len(log[id]) :
        log[id][j] = e => \E i \in 1..(j - 1) : log[id][i] = b

CalledAt(id, j, f) == log[id][j] = Called(f)

\* Function f has returned before position j of the task's history.
ReturnedBefore(id, j, f) ==
    \E i \in 1..(j - 1) : log[id][i].ev = "return" /\ log[id][i].arg = f

ExtractorFunctions ==
    {"transcribe_youtube_link", "transcribe_pdf", "transcribe_audio",
     "transcribe_text", "transcribe_images"}

TitleFunctions == {"generate_resource_title", "gen_youtube_title"}

\* The extractor did not produce content: it raised, or it wrote a
\* diagnostic message.
ExtractorFailed(id) ==
    \E i \in 1..Len(log[id]) :
        \/ log[id][i].ev = "raise"
        \/ log[id][i].ev = "return" /\ log[id][i].res = "placeholder"

NoPersistError(id) ==
    \A i \in 1..Len(log[id]) : log[id][i].ev # "persist_error"

\* The events a step adds to the history of resource id.
NewEvents(id) == SubSeq(log'[id], Len(log[id]) + 1, Len(log'[id]))

\* The step is a call of function f on resource id.
CallStep(id, f) ==
    /\ Len(log'[id]) > Len(log[id])
    /\ log'[id][Len(log[id]) + 1] = Called(f)

\* The step makes a request to a backend.
BackendRequested(id) ==
    \E i \in 1..Len(NewEvents(id)) : NewEvents(id)[i].ev = "backend"

----------------------------------------------------------------------------
\* C1: every change of a resource's persisted status moves it to "failed" or
\* to a later value of processing < transcribing < summarizing < completed;
\* no step moves it to an earlier value, and nothing follows "failed".
C1_StatusNeverRegresses ==
    [][\A id \in ResourceIds :
          (/\ store[id] # NoRow
           /\ store'[id] # NoRow
           /\ store'[id].status # store[id].status)
          => \/ store'[id].status = "failed"
             \/ /\ store[id].status # "failed"
                /\ Rank(store'[id].status) > Rank(store[id].status)]_vars

\* A run that persisted transcribing, summarizing and completed in turn.
C1_Witness ==
    \E id \in ResourceIds :
        /\ pc[id] = "done"
        /\ store[id] # NoRow
        /\ store[id].status = "completed"
        /\ Occurs(id, Persisted("transcribing"))
        /\ Occurs(id, Persisted("summarizing"))

\* C2 as stated: an ended ingestion of a resource that still exists has left
\* its status at completed or failed, whatever the persistence steps did.
C2_EndsTerminal ==
    \A id \in ResourceIds :
        (Ended(id) /\ store[id] # NoRow)
        => store[id].status \in {"completed", "failed"}

\* C2 amended: every started ingestion can always take its next step until
\* it has ended, and it ends with status completed or failed unless the
\* except clause's own persist of "failed" raised (the status then stays at
\* the last value persisted).
C2_EndsTerminalUnlessFailedPersistRaises ==
    \A id \in ResourceIds :
        /\ pc[id] \notin {"none", "done", "raised"} => ENABLED Ingest(id)
        /\ (Ended(id) /\ store[id] # NoRow
                /\ ~Occurs(id, PersistError("failed")))
           => store[id].status \in {"completed", "failed"}

\* A run whose stage failed and whose except clause persisted "failed".
C2_Witness ==
    \E id \in ResourceIds :
        /\ pc[id] = "raised"
        /\ exc[id] # "NotFound"
        /\ store[id] # NoRow
        /\ store[id].status = "failed"

\* C3: when the extractor of a resource fails and no persistence step
\* raises, the ingestion ends with status completed and a diagnostic
\* transcript.
C3_ExtractionFailureCompletes ==
    \A id \in ResourceIds :
        (Ended(id) /\ store[id] # NoRow /\ ExtractorFailed(id)
            /\ NoPersistError(id))
        => /\ store[id].status = "completed"
           /\ store[id].transcript = "placeholder"

\* C4: no extractor lets an exception reach ingest_resource.
C4_ExtractorsNeverRaise ==
    \A id \in ResourceIds :
        \A i \in 1..Len(log[id]) : log[id][i].ev # "raise"

\* C5 as stated: when a step after the load raised, the except clause leaves
\* the resource persisted as failed and re-raises the caught exception.
C5_FailurePersistsFailed ==
    [][\A id \in ResourceIds :
          (pc[id] = "handler" /\ pc'[id] = "raised" /\ exc[id] # "NotFound")
          => /\ store'[id] # NoRow
             /\ store'[id].status = "failed"
             /\ raised'[id] = exc[id]]_vars

\* C5 amended: when a step after the load raised, the except clause re-raises
\* the caught exception in every case; if the resource still exists it
\* either persists status failed (and nothing else) or, its own persist
\* raising, logs that and leaves the store as it was; if the resource is
\* gone it writes nothing.
C5_ReraisesAndAttemptsFailed ==
    [][\A id \in ResourceIds :
          (pc[id] = "handler" /\ pc'[id] = "raised" /\ exc[id] # "NotFound")
          => /\ raised'[id] = exc[id]
             /\ exc[id] # "none"
             /\ IF store[id] = NoRow
                THEN store' = store
                ELSE \/ store' = [store EXCEPT ![id].status = "failed"]
                     \/ /\ store' = store
                        /\ log'[id] = Append(log[id], PersistError("failed"))]_vars

\* A persistence error of a stage was caught, failed was persisted and the
\* error re-raised.
C5_Witness ==
    \E id \in ResourceIds :
        /\ pc[id] = "raised"
        /\ raised[id] = "PersistenceError"
        /\ store[id] # NoRow
        /\ store[id].status = "failed"
        /\ Occurs(id, Persisted("failed"))

\* C6: ingest_resource called for an id with no resource raises not-found to
\* its caller and changes nothing in the store.
C6_NotFoundChangesNothing ==
    [][\A id \in ResourceIds :
          /\ (pc[id] = "load" /\ pc'[id] # "load" /\ store[id] = NoRow)
             => /\ pc'[id] = "handler"
                /\ exc'[id] = "NotFound"
                /\ store' = store
          /\ (pc[id] = "handler" /\ pc'[id] # "handler" /\ exc[id] = "NotFound")
             => /\ pc'[id] = "raised"
                /\ raised'[id] = "NotFound"
                /\ store' = store]_vars

\* The not-found failure has reached the caller.
C6_Witness ==
    \E id \in ResourceIds :
        /\ pc[id] = "raised"
        /\ raised[id] = "NotFound"
        /\ ~Loaded(id)

\* C7: the extractor is called only after transcribing was persisted; the
\* summarizer only after the extractor returned and summarizing was
\* persisted; the title generator only after the summarizer returned;
\* completed is persisted only after all of them returned.
C7_StageOrder ==
    \A id \in ResourceIds : \A j \in 1..Len(log[id]) :
        LET xf == TranscribeFunction(sess[id].type)
            tf == GenTitleFunction(sess[id].type)
        IN  /\ (\E f \in ExtractorFunctions : CalledAt(id, j, f))
               => \E i \in 1..(j - 1) : log[id][i] = Persisted("transcribing")
            /\ CalledAt(id, j, "summarize_text")
               => /\ \E i \in 1..(j - 1) : log[id][i] = Persisted("summarizing")
                  /\ xf # "none" => ReturnedBefore(id, j, xf)
            /\ (\E f \in TitleFunctions : CalledAt(id, j, f))
               => ReturnedBefore(id, j, "summarize_text")
            /\ log[id][j] = Persisted("completed")
               => /\ xf # "none" => ReturnedBefore(id, j, xf)
                  /\ ReturnedBefore(id, j, "summarize_text")
                  /\ tf # "none" => ReturnedBefore(id, j, tf)

\* A completed run that went through all three stages.
C7_Witness ==
    \E id \in ResourceIds :
        /\ pc[id] = "done"
        /\ Occurs(id, Persisted("completed"))
        /\ Occurs(id, Called("transcribe_pdf"))
        /\ Occurs(id, Called("summarize_text"))
        /\ Occurs(id, Called("generate_resource_title"))

\* C9 as stated: a plain-text resource never has status transcribing and no
\* extractor function is called for it.
C9_TextSkipsExtraction ==
    \A id \in ResourceIds :
        (Loaded(id) /\ sess[id].type = "text")
        => /\ ~Occurs(id, Persisted("transcribing"))
           /\ \A f \in ExtractorFunctions : ~Occurs(id, Called(f))

\* C9 amended: a plain-text resource has an extraction stage that does
\* nothing: summarizing is persisted only after transcribing was, the
\* extractor called is transcribe_text, it writes nothing, and the
\* transcript that reaches the summary stage is the one supplied at
\* creation.
C9_TextExtractionIsNoOp ==
    \A id \in ResourceIds :
        (Loaded(id) /\ sess[id].type = "text")
        => /\ Preceded(id, Persisted("transcribing"), Persisted("summarizing"))
           /\ Preceded(id, Returned("transcribe_text", "pass"),
                       Persisted("summarizing"))
           /\ \A f \in ExtractorFunctions \ {"transcribe_text"} :
                 ~Occurs(id, Called(f))
           /\ (pc[id] = "set_summarizing" /\ store[id] # NoRow)
              => sess[id].transcript = store[id].transcript

\* A plain-text resource past its extraction stage.
C9_Witness ==
    \E id \in ResourceIds :
        /\ Loaded(id)
        /\ sess[id].type = "text"
        /\ Occurs(id, Called("transcribe_text"))
        /\ Occurs(id, Persisted("summarizing"))

\* C10: for a youtube_link resource the title generator that is called is
\* gen_youtube_title, not generate_resource_title.
C10_YoutubeTitleFromMetadata ==
    \A id \in ResourceIds :
        (Loaded(id) /\ sess[id].type = "youtube_link")
        => /\ ~Occurs(id, Called("generate_resource_title"))
           /\ Ended(id) /\ Occurs(id, Persisted("completed"))
              => Occurs(id, Called("gen_youtube_title"))

\* The table the generator writes to.
GenTable == IF gen.kind = "quiz" THEN quizQuestions ELSE flashCards

\* Positions, in the backend's list, of the items of the generator's run
\* that are in table t.
StoredPositions(t) == {t[k].src : k \in {j \in 1..Len(t) : t[j].batch = 1}}

\* The item a stored row of the generator's run was built from.
SourceItem(row) == gen.content.items[row.src]

\* A well-formed item: every field present and of its type; for a quiz
\* question 4 options with the correct one among them, for a flash card a
\* front and a back that are not empty once trimmed.
ItemValid(kind, item) ==
    /\ item.form = "dict"
    /\ IF kind = "quiz"
       THEN Len(item.options) = 4 /\ item.correct_option \in Range(item.options)
       ELSE Strip(item.front) # <<>> /\ Strip(item.back) # <<>>

\* C11: summarize_text called on a resource whose summary is not blank
\* changes neither the summary nor the glyph, in the session and in the
\* store, and makes no request to the generation backend.
C11_SummarizeIdempotent ==
    [][\A id \in ResourceIds :
          (CallStep(id, "summarize_text") /\ ~Blank(sess[id].summary))
          => /\ sess'[id] = sess[id]
             /\ store' = store
             /\ glyph' = glyph
             /\ ~BackendRequested(id)]_vars

\* A first call got a summary from the backend and committed it; a second
\* call returned at the check of the existing summary.
C11_Witness ==
    \E id \in ResourceIds :
        /\ Occurs(id, Backend("summarize_text"))
        /\ store[id] # NoRow
        /\ store[id].summary = "summary"
        /\ Occurs(id, Returned("summarize_text", "has_summary"))

\* C12: a title that is not blank is never changed by a later step, and a
\* title generator called on a resource with such a title makes no request
\* to its backend.
C12_TitleNeverOverwritten ==
    [][\A id \in ResourceIds :
          /\ (store[id] # NoRow /\ store'[id] # NoRow
                /\ ~Blank(store[id].title))
             => store'[id].title = store[id].title
          /\ (Loaded(id) /\ ~Blank(sess[id].title))
             => sess'[id].title = sess[id].title
          /\ \A f \in TitleFunctions :
                (CallStep(id, f) /\ ~Blank(sess[id].title))
                => ~BackendRequested(id)]_vars

\* generate_resource_title set the title; gen_youtube_title, called later,
\* returned at the check of the existing title.
C12_Witness ==
    \E id \in ResourceIds :
        /\ Occurs(id, Backend("generate_resource_title"))
        /\ store[id] # NoRow
        /\ store[id].title = "title"
        /\ Occurs(id, Returned("gen_youtube_title", "has_title"))

\* C13: a call of summarize_text returns to its caller without an exception,
\* and when it has not persisted a summary it leaves the summary and the
\* glyph of the resource as they were.
C13_SummarizeFailsWithoutMutation ==
    [][\A id \in ResourceIds :
          CallStep(id, "summarize_text")
          => /\ log'[id][Len(log'[id])].ev = "return"
             /\ exc' = exc
             /\ raised' = raised
             /\ (store'[id].summary = store[id].summary)
                => /\ sess'[id].summary = sess[id].summary
                   /\ glyph'[id] = glyph[id]]_vars

\* C14: no stored quiz question of the generator's run was built from an
\* item whose options are not a list of exactly 4 elements or whose
\* correct_option is not one of its options.
C14_QuizItemsValidated ==
    \A k \in 1..Len(quizQuestions) :
        quizQuestions[k].batch = 1
        => LET item == SourceItem(quizQuestions[k]) IN
           /\ item.form # "options_not_list"
           /\ Len(item.options) = 4
           /\ item.correct_option \in Range(item.options)

\* A committed quiz batch whose list also held an item with 3 or 5 options
\* or a correct_option outside its options; that item is not stored.
C14_Witness ==
    /\ gen.kind = "quiz"
    /\ gen.outcome = "committed"
    /\ StoredPositions(quizQuestions) # {}
    /\ \E i \in 1..Len(gen.content.items) :
          LET item == gen.content.items[i] IN
          /\ item.form = "dict"
          /\ Len(item.options) # 4 \/ item.correct_option \notin Range(item.options)
          /\ i \notin StoredPositions(quizQuestions)

\* C15: the correct_option of every stored quiz question is one of the
\* options a reader gets by splitting the stored options field.
C15_CorrectOptionAmongStoredOptions ==
    \A k \in 1..Len(quizQuestions) :
        quizQuestions[k].correct_option
            \in Range(QuizQuestionResponse(quizQuestions[k]).options)

\* C16: for every stored quiz question, the options a reader gets by
\* splitting the stored field are the 4 options of the accepted item, in
\* order.
C16_OptionsRoundTrip ==
    \A k \in 1..Len(quizQuestions) :
        quizQuestions[k].batch = 1
        => QuizQuestionResponse(quizQuestions[k]).options
              = SourceItem(quizQuestions[k]).options

\* C17: every stored flash card has a front and a back that are not empty.
C17_FlashCardsNonEmpty ==
    \A k \in 1..Len(flashCards) :
        /\ flashCards[k].front # <<>>
        /\ flashCards[k].back # <<>>

\* C18: at every moment the store holds either none of the run's items or,
\* after its single commit, the rows of all the items that passed the
\* checks; a run that ended with an exception in its loop or in its commit
\* has stored none.
C18_BatchAllOrNothing ==
    /\ StoredPositions(flashCards) # {} => gen.kind = "flash"
    /\ StoredPositions(quizQuestions) # {} => gen.kind = "quiz"
    /\ \/ StoredPositions(GenTable) = {}
       \/ /\ gen.pc = "done"
          /\ gen.outcome = "committed"
          /\ StoredPositions(GenTable)
                = KeptPositions(gen.kind, gen.content.items)

\* The loop raised at its second item after adding the first: nothing of
\* the batch is stored.
C18_Witness ==
    /\ gen.pc = "done"
    /\ gen.outcome = "item_error"
    /\ Len(gen.content.items) = 2
    /\ ItemValid(gen.kind, gen.content.items[1])
    /\ StoredPositions(GenTable) = {}

\* C19: when the backend's output parsed to a list and the commit did not
\* fail (and the resource was not deleted), every well-formed item of the
\* list is stored, whatever other items the list holds.
C19_ValidItemsSurviveInvalidOnes ==
    (/\ gen.pc = "done"
     /\ gen.content.form = "list"
     /\ gen.outcome # "commit_error"
     /\ store[gen.rid] # NoRow)
    => \A i \in 1..Len(gen.content.items) :
          ItemValid(gen.kind, gen.content.items[i])
          => i \in StoredPositions(GenTable)

\* C20: no step of a generator changes a resource row.
C20_GeneratorsLeaveResource ==
    [][gen' # gen => store' = store]_vars

\* A generator ran for a resource with a blank transcript and returned.
C20_Witness ==
    /\ gen.pc = "done"
    /\ gen.outcome = "no_transcript"
    /\ store[gen.rid] # NoRow
    /\ store[gen.rid].status = "processing"

\* C21: a generator that finds its resource with a blank transcript returns
\* at once, without an exception: it makes no request to the backend and
\* stores nothing.
C21_BlankTranscriptSkipsGeneration ==
    [][(/\ gen.pc = "load"
        /\ gen' # gen
        /\ store[gen.rid] # NoRow
        /\ Blank(store[gen.rid].transcript))
       => /\ gen'.pc = "done"
          /\ gen'.outcome = "no_transcript"
          /\ gen'.content = NoContent
          /\ flashCards' = flashCards
          /\ quizQuestions' = quizQuestions]_vars

\* The quiz generator ran for a resource still in status transcribing with
\* an empty transcript, and has returned.
C21_Witness ==
    /\ gen.kind = "quiz"
    /\ gen.pc = "done"
    /\ gen.outcome = "no_transcript"
    /\ store[gen.rid] # NoRow
    /\ store[gen.rid].status = "transcribing"
    /\ StoredPositions(quizQuestions) = {}

TaskState(id) ==
    <<store[id], sess[id], pc[id], exc[id], raised[id], log[id], glyph[id]>>

\* C25: ingestions of distinct resources running side by side, in any
\* interleaving: a step of one task works through that task's own session
\* and changes the row, session copy and history of its own resource only,
\* and whatever the other task is doing, a task that has not ended can take
\* its next step; so each task's run is a run of the ingestion on its own.
C25_ConcurrentIngestionsIndependent ==
    [][/\ \A id \in ConcurrentIds :
             pc'[id] # pc[id]
                => \A o \in ResourceIds \ {id} : TaskState(o)' = TaskState(o)
       /\ \A id \in ConcurrentIds : ~Ended(id) => ENABLED Ingest(id)]_vars

\* Both ingestions are under way at once, each having changed its own row
\* through its own session.
C25_Witness ==
    /\ pc[1] = "title"
    /\ pc[2] = "extract"
    /\ store[1].status = "summarizing"
    /\ store[2].status = "transcribing"
    /\ sess[1] # NoRow
    /\ sess[2] # NoRow
    /\ sess[1].summary # store[1].summary

\* C23 as stated: when an invocation of transcribe_audio, transcribe_pdf or
\* transcribe_images has returned, none of the scratch files it created is
\* left.
C23_ScratchFilesDeleted ==
    (ext.kind # "none" /\ ext.pc = "end") => ext.files = {}

\* C23: on every exit path os.unlink has been called on every scratch file
\* the invocation created before it returns, and no file is created before
\* an early return for a missing dependency; the files left are those whose
\* os.unlink raised OSError (logged and swallowed); while the invocation
\* runs, only the file in use has not been unlinked yet.
C23_ScratchFilesUnlinked ==
    ext.kind # "none" =>
       /\ ext.failed \subseteq ext.files
       /\ ext.files \subseteq 1..ext.created
       /\ IF ext.pc \in {"download", "process", "cleanup"}
          THEN ext.files \ ext.failed = {ext.created}
          ELSE ext.files = ext.failed
       /\ (ext.pc = "end" /\ ext.attempts = 0) => ext.created = 0

\* An image set of two images: the first download failed, the OCR runtime
\* was found missing on the second and the function returned from inside
\* the try block; both scratch files are gone.
C23_Witness ==
    /\ ext.kind = "images"
    /\ ext.pc = "end"
    /\ ext.outcome = "returned"
    /\ ext.transcript = "unavailable"
    /\ ext.created = 2
    /\ ext.files = {}
    /\ Len(ext.blocks) = 1
    /\ ext.blocks[1].note = "error"

BlocksOf(k) == {j \in 1..Len(ext.blocks) : ext.blocks[j].n = k}

\* C29 as stated: every image whose resolving, download or OCR failed has
\* its own `--- Image N ---` block holding an error note.
C29_ImageFailuresRecorded ==
    ext.kind = "images" =>
       \A k \in ext.errors :
          (ext.pc \in {"resolve", "combine", "end"} \/ k < ext.i)
             => \E j \in BlocksOf(k) : ext.blocks[j].note = "error"

\* C29: an image whose resolving, download or OCR raised (other than for a
\* missing OCR runtime) has exactly one block, numbered by its position and
\* holding an error note; an image whose locator is rejected (not an S3
\* URL, or of another bucket) is skipped without a block; and unless the
\* OCR runtime is missing the loop visits every image, each image that
\* resolves having exactly one block.
C29_ImageExceptionsRecorded ==
    ext.kind = "images" =>
       /\ \A k \in ext.errors :
             (ext.pc \in {"resolve", "combine", "end"} \/ k < ext.i)
                => IF ext.images[k].locator \in {"ours", "nosplit"}
                   THEN /\ Cardinality(BlocksOf(k)) = 1
                        /\ \A j \in BlocksOf(k) : ext.blocks[j].note = "error"
                   ELSE BlocksOf(k) = {}
       /\ (ext.pc = "end" /\ ext.transcript \in {"blocks", "no_text"})
             => /\ ext.i = Len(ext.images) + 1
                /\ \A k \in 1..Len(ext.images) :
                      ext.images[k].locator \in {"ours", "nosplit"}
                         => Cardinality(BlocksOf(k)) = 1

\* The download of the first image failed and the second image was read.
C29_Witness ==
    /\ ext.kind = "images"
    /\ ext.pc = "end"
    /\ ext.transcript = "blocks"
    /\ ext.errors = {1}
    /\ ext.images[1].locator = "ours"
    /\ Len(ext.blocks) = 2
    /\ ext.blocks[1].n = 1
    /\ ext.blocks[1].note = "error"
    /\ ext.blocks[2].n = 2
    /\ ext.blocks[2].note = "text"

\* C30: block N of an image-set transcript belongs to the N-th image by
\* upload (creation) time, whatever the order in which the record store
\* returns the images.
C30_BlocksFollowUploadOrder ==
    ext.kind = "images" =>
       \A j \in 1..Len(ext.blocks) : ext.blocks[j].n = ext.blocks[j].upload

\* The segments ("hello world", 0, 1) and ("Next thought", 5, 1).
ExampleSegments ==
    <<[text |-> Chars["hello world"], start |-> 0, duration |-> 1],
      [text |-> Chars["Next thought"], start |-> 5, duration |-> 1]>>

\* The text is not blank.
Spoken(segment) == Strip(segment.text) # <<>>

\* Seconds from the end of segment k to the start of segment k + 1.
GapAfter(list, k) == list[k + 1].start - (list[k].start + list[k].duration)

\* C26: the formatted transcript has a paragraph break wherever a segment
\* starts more than 3.0 s after the previous segment ended, and for the
\* segments ("hello world", 0, 1), ("Next thought", 5, 1) it is the two
\* paragraphs "Hello world." and "Next thought".
C26_GapStartsParagraph ==
    (helper.name = "format_transcript_for_display" /\ helper.pc = "done") =>
       /\ helper.arg = ExampleSegments
             => helper.result = Chars["Hello world."] \o <<NL, NL>> \o Chars["Next thought"]
       /\ \A k \in 1..(Len(helper.arg) - 1) :
             (/\ Spoken(helper.arg[k])
              /\ Spoken(helper.arg[k + 1])
              /\ GapAfter(helper.arg, k) > paragraph_gap)
                => \E p \in 1..Len(helper.result) :
                      StartsWith(helper.result, p, <<NL, NL>>)

\* What extract_youtube_video_id is to return for a URL made of the given
\* parts: the first 11 characters of a run of at least 11 directly after
\* youtube.com/watch?v=, youtu.be/ or youtube.com/embed/; failing that the
\* 11 characters after the last v= of a youtube.com/watch? query; <<>> if
\* there is neither.
IdInAcceptedPosition(parts) ==
    LET youtube == parts.host \in {"www.youtube.com", "m.youtube.com", "youtube.com"}
        run == parts.id \in {"abcDEFghi12", "abcDEFghi12X"}
    IN  IF run /\ \/ youtube /\ parts.path \in {"/watch?v=", "/embed/"}
                  \/ parts.host = "youtu.be" /\ parts.path = "/"
        THEN Chars["abcDEFghi12"]
        ELSE IF youtube /\ parts.tail = "&v=zyxWVUtsr98"
                /\ parts.path \in {"/watch?v=", "/watch?t=1&v=", "/watch?list="}
        THEN Chars["zyxWVUtsr98"]
        ELSE IF youtube /\ run /\ parts.path = "/watch?t=1&v="
        THEN Chars["abcDEFghi12"]
        ELSE <<>>

ShortUrl ==
    <<"h", "t", "t", "p", "s", ":", "/", "/", "y", "o", "u", "t", "u",
      ".", "b", "e", "/", "a", "b", "c", "D", "E", "F", "g", "h", "i",
      "1", "2">>

WatchUrl ==
    <<"h", "t", "t", "p", "s", ":", "/", "/", "w", "w", "w", ".", "y",
      "o", "u", "t", "u", "b", "e", ".", "c", "o", "m", "/", "w", "a",
      "t", "c", "h", "?", "v", "=", "a", "b", "c", "D", "E", "F", "g",
      "h", "i", "1", "2">>

MobileUrl ==
    <<"h", "t", "t", "p", "s", ":", "/", "/", "m", ".", "y", "o", "u",
      "t", "u", "b", "e", ".", "c", "o", "m", "/", "w", "a", "t", "c",
      "h", "?", "v", "=", "a", "b", "c", "D", "E", "F", "g", "h", "i",
      "1", "2">>

\* C27: extract_youtube_video_id returns abcDEFghi12 for
\* https://youtu.be/abcDEFghi12, https://www.youtube.com/watch?v=abcDEFghi12
\* and https://m.youtube.com/watch?v=abcDEFghi12; for every URL it returns
\* the 11-character identifier found in an accepted position, and raises
\* ValueError when there is none.
C27_VideoIdExtracted ==
    (helper.name = "extract_youtube_video_id" /\ helper.pc = "done") =>
       /\ helper.url \in {ShortUrl, WatchUrl, MobileUrl}
             => helper.outcome = "returned" /\ helper.result = Chars["abcDEFghi12"]
       /\ IF IdInAcceptedPosition(helper.arg) # <<>>
          THEN /\ helper.outcome = "returned"
               /\ helper.result = IdInAcceptedPosition(helper.arg)
               /\ Len(helper.result) = 11
          ELSE helper.outcome = "ValueError"

\* The mobile URL has been parsed and its identifier returned.
C27_Witness ==
    /\ helper.name = "extract_youtube_video_id"
    /\ helper.pc = "done"
    /\ helper.url = MobileUrl
    /\ helper.outcome = "returned"
    /\ helper.result = Chars["abcDEFghi12"]

\* The period rule read on the trimmed texts; blank is whether it is applied
\* to segments whose trimmed text is empty.
PeriodDue(list, k, blank) ==
    LET text == Strip(list[k].text) IN
    /\ IF text = <<>> THEN blank ELSE text[Len(text)] \notin Terminal
    /\ k + 1 <= Len(list)
    /\ \/ LET next == Strip(list[k + 1].text)
          IN  next # <<>> /\ IsUpper(next[1])
       \/ GapAfter(list, k) > period_gap

\* The segments the loop has gone through.
Processed == 1..(helper.i - 1)

\* C28 as stated: a period is appended to a segment exactly when its text
\* does not end in '.', '!' or '?', a following segment exists, and that
\* one starts with an upper-case letter or begins more than 2.0 s after
\* this one ends.
C28_PeriodAppendedAsStated ==
    helper.name = "format_transcript_for_display" =>
       \A k \in Processed : k \in helper.added <=> PeriodDue(helper.arg, k, TRUE)

\* C28: the same for every segment whose trimmed text is not empty; a
\* segment whose trimmed text is empty is skipped and gets no period.
C28_PeriodAppended ==
    helper.name = "format_transcript_for_display" =>
       \A k \in Processed : k \in helper.added <=> PeriodDue(helper.arg, k, FALSE)

\* "hello world" is followed 3 s later by " so": the period comes from the
\* gap alone.
C28_Witness ==
    /\ helper.name = "format_transcript_for_display"
    /\ helper.pc = "done"
    /\ Len(helper.arg) = 2
    /\ helper.arg[1].text = Chars["hello world"]
    /\ helper.arg[2].text = <<" ", "s", "o">>
    /\ GapAfter(helper.arg, 1) = 3
    /\ helper.added = {1}
    /\ helper.result = Chars["Hello world."] \o <<" ", "S", "o">>

\* The extractors that write a transcript (transcribe_text writes none).
WritingExtractors ==
    {"transcribe_youtube_link", "transcribe_audio", "transcribe_pdf",
     "transcribe_images"}

C35_CompletedTranscriptNonEmpty ==
    \A id \in ResourceIds :
       (/\ store[id] # NoRow
        /\ store[id].status = "completed"
        /\ store[id].type \in {"youtube_link", "audio", "pdf", "image"})
          => ~Blank(store[id].transcript)

\* C36: within one run of ingest_resource no persisted failed follows a
\* persisted completed.
C36_CompletedIsLastStatusWrite ==
    \A id \in ResourceIds :
       \A i, j \in 1..Len(log[id]) :
          (i < j /\ log[id][i] = Persisted("completed"))
             => log[id][j] # Persisted("failed")

\* C37: while the record is missing, a step of its ingestion persists no
\* status, leaves the record missing and does not end the run normally, so
\* the run ends by raising to its caller; once raised, nothing is written.
C37_DeletedRecordEndsRaised ==
    [][\A id \in ResourceIds :
          (store[id] = NoRow /\ pc[id] \notin {"none", "done"}
             /\ pc'[id] # pc[id])
             => /\ store'[id] = NoRow
                /\ pc'[id] # "done"
                /\ \A k \in 1..Len(NewEvents(id)) :
                      NewEvents(id)[k].ev # "persist"
                /\ pc'[id] = "raised" => raised'[id] # "none"]_vars

\* The record was deleted after summarizing had been persisted: the run
\* ended by raising, with no status written after that.
C37_Witness ==
    /\ pc[1] = "raised"
    /\ raised[1] = "PersistenceError"
    /\ store[1] = NoRow
    /\ log[1][Len(log[1])] = PersistError("commit")
    /\ Occurs(1, Persisted("summarizing"))
    /\ ~Occurs(1, Persisted("failed"))

\* C39: ingest_resource, generate_flash_cards and generate_quiz_questions
\* each close the session they opened on every exit path: once a task has
\* left, by its normal return, by the early return of a generator that found
\* no transcript, or by a propagated exception, its session is closed; the
\* session is open while the task is between its first statement and its
\* exit, and no session exists for a task that has not started.
C39_SessionClosedOnEveryExit ==
    /\ \A id \in ResourceIds :
          db.ingest[id] = (CASE pc[id] \in {"none", "load"} -> "none"
                             [] pc[id] \in {"done", "raised"} -> "closed"
                             [] OTHER -> "open")
    /\ db.gen = (CASE gen.pc \in {"idle", "load"} -> "none"
                   [] gen.pc \in {"done", "raised"} -> "closed"
                   [] OTHER -> "open")

\* An ingestion task has left by a propagated exception and a generator by
\* its early return, both with their sessions closed.
C39_Witness ==
    /\ pc[1] = "raised"
    /\ raised[1] # "none"
    /\ db.ingest[1] = "closed"
    /\ gen.pc = "done"
    /\ gen.outcome = "no_transcript"
    /\ db.gen = "closed"

\* The rows of table t are the first rows of table u, unmodified.
StartsWithRows(u, t) ==
    /\ Len(t) <= Len(u)
    /\ \A i \in 1..Len(t) : u[i] = t[i]

\* C38: generate_flash_cards and generate_quiz_questions only add
\* artifacts.  No step of an invocation deletes or modifies a flash card or
\* a quiz question already stored, whether it was stored by an earlier
\* invocation or by a concurrent one that committed meanwhile; the step that
\* commits appends one batch to the table of its kind, one row of the
\* invocation's resource per item that passed the checks, after all the
\* rows already stored, and leaves the other table alone.
C38_GeneratorsOnlyAdd ==
    [][gen' # gen =>
         /\ StartsWithRows(flashCards', flashCards)
         /\ StartsWithRows(quizQuestions', quizQuestions)
         /\ LET before == IF gen.kind = "quiz" THEN quizQuestions ELSE flashCards
                after == IF gen.kind = "quiz" THEN quizQuestions' ELSE flashCards'
                added == IF gen.pc = "persist" /\ gen'.outcome = "committed"
                         THEN Cardinality(KeptPositions(gen.kind, gen.content.items))
                         ELSE 0
            IN  /\ Len(after) = Len(before) + added
                /\ \A i \in (Len(before) + 1)..Len(after) :
                      /\ after[i].batch = 1
                      /\ after[i].resource_id = gen.rid
                /\ gen.kind = "quiz" => flashCards' = flashCards
                /\ gen.kind # "quiz" => quizQuestions' = quizQuestions]_vars

\* A flash card run has committed two cards after the card of an earlier
\* invocation and the card a concurrent invocation committed meanwhile.
C38_Witness ==
    /\ gen.pc = "done"
    /\ gen.kind = "flash"
    /\ gen.outcome = "committed"
    /\ Len(flashCards) = 4
    /\ flashCards[1] = OldFlashRow(1)
    /\ flashCards[2].batch = 2
    /\ flashCards[3].batch = 1
    /\ flashCards[4].batch = 1
    /\ quizQuestions = <<OldQuizRow(1)>>

\* C32: every title written to a resource by generate_resource_title or
\* gen_youtube_title is non-empty and at most 200 characters long, for
\* every text returned by the backend.
C32_TitleNonEmptyAtMost200 ==
    (/\ helper.name \in {"generate_resource_title", "gen_youtube_title"}
     /\ helper.pc = "done"
     /\ helper.outcome = "written")
    => /\ helper.result # <<>>
       /\ Len(helper.result) <= 200

\* The pages of the document whose OCR gave text other than white space.
Recognized(pages) ==
    {n \in 1..Len(pages) : pages[n].o = "text" /\ Strip(pages[n].text) # <<>>}

RECURSIVE InSubtree(_, _)
InSubtree(g, f) ==
    \/ g = f
    \/ /\ g # 0
       /\ tree.folders[g] # NoRow
       /\ InSubtree(tree.folders[g].parent_folder_id, f)

\* C33: after delete_folder(f) succeeds for a user, folder f, every folder
\* in its subtree, every resource in those folders, and every flash card,
\* quiz question and resource image of those resources are absent from the
\* store, while that user's folders and resources outside the subtree are
\* unchanged.
C33_DeleteFolderRemovesSubtree ==
    [][\A user \in Users : \A f \in 1..MaxFolders :
         (DeleteFolder(user, f) /\ tree' # tree) =>
         LET subtree == {g \in 1..MaxFolders :
                            tree.folders[g] # NoRow /\ InSubtree(g, f)}
             filed == {r \in 1..MaxFiled :
                          /\ tree.resources[r] # NoRow
                          /\ tree.resources[r].folder_id \in subtree}
         IN  /\ \A g \in subtree : tree'.folders[g] = NoRow
             /\ \A r \in filed : tree'.resources[r] = NoRow
             /\ \A a \in tree'.artifacts : a.made_for \notin filed
             /\ \A g \in (1..MaxFolders) \ subtree :
                   (tree.folders[g] # NoRow /\ tree.folders[g].user_id = user)
                      => tree'.folders[g] = tree.folders[g]
             /\ \A r \in (1..MaxFiled) \ filed :
                   (tree.resources[r] # NoRow /\ tree.resources[r].user_id = user)
                      => tree'.resources[r] = tree.resources[r]]_vars
====
